---- MODULE Spec2Model ----
(***************************************************************************)
(* The authentication load-test harness of scripts/load_test_auth.py       *)
(* (class KAMPYNLoadTester) as a state machine.                            *)
(*                                                                         *)
(* One action is one resumption of a coroutine on the asyncio event loop:  *)
(* the code that runs from one await (semaphore acquisition, HTTP          *)
(* response, asyncio.sleep) to the next one, or to the return.  The event  *)
(* loop is single threaded, so such a segment is atomic.  The system under *)
(* test (HTTP server, OTP data store) is the environment: its responses    *)
(* are inputs of the actions and its OTP writes are an action of its own.  *)
(***************************************************************************)
EXTENDS Integers, Sequences, FiniteSets, TLC

(***************************************************************************)
(* Bounds of the model.                                                    *)
(***************************************************************************)
MaxUsers == 2
MaxCap == 2
MaxDuration == 1
ScenarioUsers == 5
ScenarioCap == 2
MaxClock == 2
MaxSamples == 2
MaxStamp == 2
MaxCode == 2
MaxStore == 3
\* page_size of fetch_all_items_for_uni
PageSize == 1
\* the largest number of full pages and the largest totalPages of the endpoint
MaxPages == 2
ScenarioMatching == 3
ScenarioOther == 2
LiveUsers == 2
LiveCap == 1

(***************************************************************************)
(* Program constants.                                                      *)
(***************************************************************************)
HTTP_CREATED == 201
HTTP_OK == 200

StepNames == <<"signup", "otp_verification", "login", "forgot_password", "reset_password">>
Steps == {StepNames[i] : i \in 1..Len(StepNames)}

\* None, as returned by get_otp_from_mongodb; every OTP code is a positive number
None == 0

VARIABLES
    phase,                \* "constructed", "running", "returned", "interrupted"
    num_users,            \* run_load_test's num_users
    max_concurrent,       \* run_load_test's max_concurrent
    latency,              \* what time.time() measures for one request of this run
    sem_value,            \* asyncio.Semaphore._value
    waiters,              \* tasks waiting in "async with semaphore", in creation order
    pc,                   \* per task: the await it is suspended at
    workflow_result,      \* per task: the five *_success flags of workflow_result
    results,              \* self.results: step -> success, failed, times
    calls,                \* per task: the requests and OTP reads it has issued
    otps,                 \* the OTP collection of the data store
    pending,              \* per task: OTPs the server has issued and not yet persisted
    run_results,          \* what asyncio.gather returned
    successful_workflows, \* run_load_test's tally
    main_pc,              \* where main() is
    session,              \* self.session: "None", "open", "closed"
    mongo_client,         \* self.mongo_client: "None", "open", "closed"
    start_time,           \* self.start_time, None until run_load_test sets it
    now,                  \* what time.time() returns
    report,               \* what print_results printed, or that it raised
    users,                \* the user collection of the data store
    cleanup_log,          \* what cleanup_test_data logged
    interrupted,          \* the operator has interrupted the process
    exit_status,          \* "running", then "0" or "nonzero"
    lookup,               \* the last result of get_otp_from_mongodb called alone
    \* update_vendor_inventory.py, fetch_all_items_for_uni
    fetch_pc,             \* "idle", "loop", "returned", "raised"
    server,               \* how the item endpoint behaves during this call
    page,                 \* the page to request next
    all_items,            \* the items of the pages read so far
    total_pages,          \* totalPages once the server has reported it, else None
    requested,            \* the page numbers requested, in order
    unique_items,         \* what fetch_all_items_for_uni returned
    \* update_vendor_inventory.py, main
    inv_pc,               \* "idle", "vendor", "fetch", "fetching", "post",
                          \* "summary", "raised"
    vendor_ids,           \* args.vendor_ids
    args,                 \* args.retails_json, args.produces_json, args.uni_id
    vendor_pos,           \* the position in vendor_ids of the vendor being updated
    uni_id,               \* the university of that vendor
    category,             \* "retail" or "produce"
    cross_check,          \* the ids of the API and of the file for this category
    to_post,              \* the items still to post for this vendor and category
    posted,               \* the updates posted for this vendor and category
    overall_added,
    overall_failed,
    \* add_gst_numbers.py, add_gst_numbers_to_universities
    gst_pc,               \* "idle", "loop", "returned"
    unis,                 \* db.unis: the gstNumber of each university, None without
    universities,         \* the documents found at the start of the run
    uni_pos,              \* the position in universities of the next one
    updated_count,
    skipped_count,
    gst_errors,           \* the errors reported in this run
    gst_runs,             \* the runs begun
    previous_run          \* db.unis as the run before left it, and its counts

\* the state of main() and of what it uses around the run
mainVars == <<main_pc, session, mongo_client, start_time, now, report, users,
              cleanup_log, interrupted, exit_status, lookup>>

fetchVars == <<fetch_pc, server, page, all_items, total_pages, requested, unique_items>>

inventoryVars == <<inv_pc, vendor_ids, args, vendor_pos, uni_id, category,
                   cross_check, to_post, posted, overall_added, overall_failed>>

gstVars == <<gst_pc, unis, universities, uni_pos, updated_count, skipped_count,
             gst_errors, gst_runs, previous_run>>

\* the state of the other scripts of the repository
scriptVars == <<fetchVars, inventoryVars, gstVars>>

vars == <<phase, num_users, max_concurrent, latency, sem_value, waiters, pc,
          workflow_result, results, calls, otps, pending, run_results,
          successful_workflows, mainVars, scriptVars>>

Durations == 1..MaxDuration

(***************************************************************************)
(* What the server can answer to one request: an exception of the client   *)
(* (connection refused, timeout), or a status with a body that is JSON or  *)
(* is not.                                                                 *)
(***************************************************************************)
Responses ==
    {[raised |-> TRUE, status |-> 0, json_ok |-> FALSE]}
    \cup [raised : {FALSE}, status : {HTTP_OK, HTTP_CREATED, 500}, json_ok : BOOLEAN]

\* every index given the same email
generate_one_user(index) ==
    [email    |-> <<"testuser", 0, "@test.com">>,
     phone    |-> <<"98765", index>>,
     password |-> <<"Password", index, "!">>]

(***************************************************************************)
(* generate_test_user: the identity of the user of index `index`.  A       *)
(* formatted string is the tuple of its literal parts and the index.       *)
(***************************************************************************)
generate_test_user(index) ==
    [email    |-> <<"testuser", index, "@test.com">>,
     phone    |-> <<"98765", index>>,
     password |-> <<"Password", index, "!">>]

\* the query without its email filter
get_otp_of_any_email(email, store, db_ok) ==
    IF ~db_ok THEN None
    ELSE IF store = {} THEN None
         ELSE (CHOOSE r \in store :
                  \A q \in store : q.createdAt <= r.createdAt).otp

(***************************************************************************)
(* get_otp_from_mongodb: the otp of the newest record of the email, None   *)
(* when there is none or when the data store raises (db_ok false).         *)
(***************************************************************************)
get_otp_from_mongodb(email, store, db_ok) ==
    IF ~db_ok THEN None
    ELSE LET matching == {r \in store : r.email = email}
         IN  IF matching = {} THEN None
             ELSE (CHOOSE r \in matching :
                      \A q \in matching : q.createdAt <= r.createdAt).otp

(***************************************************************************)
(* The five step calls.  Each returns the success flag and the measured    *)
(* duration; `raises` says whether the call lets an exception out, which   *)
(* the try/except of every step call prevents.                             *)
(***************************************************************************)
\* test_signup without its except clause
test_signup_uncaught(r, d) ==
    [success  |-> ~r.raised /\ r.status = HTTP_CREATED /\ r.json_ok,
     duration |-> d,
     raises   |-> r.raised]

test_signup(r, d) ==
    [success  |-> ~r.raised /\ r.status = HTTP_CREATED /\ r.json_ok,
     duration |-> d,
     raises   |-> FALSE]

test_otp_verification(r, d) ==
    [success  |-> ~r.raised /\ r.status = HTTP_OK,
     duration |-> d,
     raises   |-> FALSE]

test_login(r, d) ==
    [success  |-> ~r.raised /\ r.status = HTTP_OK /\ r.json_ok,
     duration |-> d,
     raises   |-> FALSE]

test_forgot_password(r, d) ==
    [success  |-> ~r.raised /\ r.status = HTTP_OK,
     duration |-> d,
     raises   |-> FALSE]

test_reset_password(r, d) ==
    [success  |-> ~r.raised /\ r.status = HTTP_OK,
     duration |-> d,
     raises   |-> FALSE]

(***************************************************************************)
(* Updates of self.results.                                                *)
(***************************************************************************)
EmptyResults == [s \in Steps |-> [success |-> 0, failed |-> 0, times |-> <<>>]]

\* a duration appended twice
AppendTimeTwice(res, s, d) == [res EXCEPT ![s].times = Append(Append(@, d), d)]

AppendTime(res, s, d) == [res EXCEPT ![s].times = Append(@, d)]

\* "= 1" for "+= 1"
IncrSuccessOverwrites(res, s) == [res EXCEPT ![s].success = 1]

IncrSuccess(res, s) == [res EXCEPT ![s].success = @ + 1]

\* a failure that is not counted
IncrFailedLost(res, s) == res

IncrFailed(res, s) == [res EXCEPT ![s].failed = @ + 1]

\* the trailing ifs without their conditions
UpdateIncompleteUnconditional(res, wr) ==
    [s \in Steps |->
        IF s # "signup" THEN [res[s] EXCEPT !.failed = @ + 1] ELSE res[s]]

\* the trailing ifs left out
UpdateIncompleteSkipped(res, wr) == res

\* "Update failed counts for incomplete workflows", the four ifs that end
\* test_user_workflow
UpdateIncomplete(res, wr) ==
    [s \in Steps |->
        IF s # "signup" /\ ~wr[s] THEN [res[s] EXCEPT !.failed = @ + 1] ELSE res[s]]

\* the workflow_result dictionary as test_user_workflow creates it
NewWorkflowResult == [s \in Steps |-> FALSE]

(***************************************************************************)
(* "async with semaphore": entering takes a slot, leaving gives it back,   *)
(* whether the body returned or raised.                                    *)
(***************************************************************************)
\* entering without taking a slot
SemaphoreEnterUncounted(value) == value

SemaphoreEnter(value) == value - 1

\* a slot given back on return only
SemaphoreExitOnReturn(value, raised) == IF raised THEN value ELSE value + 1

\* a slot that is never given back
SemaphoreExitKeepsSlot(value, raised) == value

SemaphoreExit(value, raised) == value + 1

Tasks == 0..(num_users - 1)

Holding == {"signup", "sleep_otp", "otp_verification", "login",
            "forgot_password", "sleep_reset_otp", "reset_password"}

Finished == {"done", "raised", "cancelled"}

Call(op, otp) == [op |-> op, otp |-> otp]

(***************************************************************************)
(* print_results.  Durations are integers here, so a quotient is kept as   *)
(* the pair <<numerator, denominator>>; a Python division whose divisor is *)
(* 0 raises ZeroDivisionError.                                             *)
(***************************************************************************)
NoRatio == <<0, 0>>

PyDiv(a, b) ==
    IF b = 0 THEN [raised |-> TRUE, value |-> NoRatio]
             ELSE [raised |-> FALSE, value |-> <<a, b>>]

\* total_time = time.time() - self.start_time if self.start_time else 0
TotalTime(start, t) == IF start # None THEN t - start ELSE 0

RECURSIVE SumSeq(_)
SumSeq(q) == IF q = <<>> THEN 0 ELSE Head(q) + SumSeq(Tail(q))

MinSeq(q) == CHOOSE x \in {q[i] : i \in 1..Len(q)} : \A i \in 1..Len(q) : x <= q[i]

MaxSeq(q) == CHOOSE x \in {q[i] : i \in 1..Len(q)} : \A i \in 1..Len(q) : x >= q[i]

\* statistics.quantiles(data, n=20)[18], the default (exclusive) method
Quantile95(data) ==
    LET sorted == SortSeq(data, LAMBDA a, b : a < b)
        ld == Len(data)
        m == ld + 1
        j0 == (19 * m) \div 20
        j == IF j0 < 1 THEN 1 ELSE IF j0 > ld - 1 THEN ld - 1 ELSE j0
        delta == 19 * m - j * 20
    IN <<sorted[j] * (20 - delta) + sorted[j + 1] * delta, 20>>

\* sum(len(v['times']) for v in self.results.values())
TotalRequests(res) ==
    Len(res["signup"].times) + Len(res["otp_verification"].times)
    + Len(res["login"].times) + Len(res["forgot_password"].times)
    + Len(res["reset_password"].times)

NoStepReport ==
    [kind |-> "omitted", success |-> 0, failed |-> 0, rate |-> NoRatio,
     avg |-> NoRatio, min |-> 0, max |-> 0, p95 |-> NoRatio]

\* the percentile taken from statistics.quantiles whatever the number of
\* samples; quantiles raises StatisticsError on fewer than two
StepReportAlwaysQuantiles(data) ==
    IF data.times = <<>> THEN NoStepReport
    ELSE LET avg_time == <<SumSeq(data.times), Len(data.times)>>
             rate == PyDiv(data.success * 100, data.success + data.failed)
         IN [kind |-> IF rate.raised \/ Len(data.times) < 2 THEN "raised" ELSE "stats",
             success |-> data.success,
             failed |-> data.failed,
             rate |-> rate.value,
             avg |-> avg_time,
             min |-> MinSeq(data.times),
             max |-> MaxSeq(data.times),
             p95 |-> IF Len(data.times) > 1 THEN Quantile95(data.times)
                     ELSE NoRatio]

\* the body of the loop over the steps: nothing is printed for a step
\* without samples
StepReport(data) ==
    IF data.times = <<>> THEN NoStepReport
    ELSE LET avg_time == <<SumSeq(data.times), Len(data.times)>>
             rate == PyDiv(data.success * 100, data.success + data.failed)
         IN [kind |-> IF rate.raised THEN "raised" ELSE "stats",
             success |-> data.success,
             failed |-> data.failed,
             rate |-> rate.value,
             avg |-> avg_time,
             min |-> MinSeq(data.times),
             max |-> MaxSeq(data.times),
             p95 |-> IF Len(data.times) > 1 THEN Quantile95(data.times)
                     ELSE avg_time]

NoSteps == [s \in Steps |-> NoStepReport]

\* nothing printed yet
NoReport ==
    [raised |-> FALSE, at |-> "not called", total_time |-> 0,
     throughput |-> NoRatio, steps |-> NoSteps]

PrintResults(res, start, t) ==
    LET total_time == TotalTime(start, t)
        throughput == PyDiv(TotalRequests(res), total_time)
        steps == [s \in Steps |-> StepReport(res[s])]
    IN IF throughput.raised
       THEN [raised |-> TRUE, at |-> "throughput", total_time |-> total_time,
             throughput |-> NoRatio, steps |-> NoSteps]
       ELSE IF \E s \in Steps : steps[s].kind = "raised"
       THEN [raised |-> TRUE, at |-> "step", total_time |-> total_time,
             throughput |-> throughput.value, steps |-> steps]
       ELSE [raised |-> FALSE, at |-> "printed", total_time |-> total_time,
             throughput |-> throughput.value, steps |-> steps]

\* no lookup made on its own yet
NoLookup == [called |-> FALSE, email |-> <<>>, db_ok |-> TRUE, otp |-> None]

\* the file of an option that is not given
NotGiven == [given |-> FALSE, readable |-> FALSE, records |-> {}]

\* the options before they are parsed: no file given, no --uni-id
NoArgs == [retails_json |-> FALSE, produces_json |-> FALSE, uni_id |-> None]

\* no cross-check of the API against a JSON file made
NoCrossCheck == [made |-> FALSE, api_ids |-> {}, json_ids |-> {}]

\* the item endpoint before any call: no full page, no totalPages
NoServer == [full_pages |-> 0, always_full |-> FALSE, totalPages |-> None]

\* fetch_all_items_for_uni not called
FetchIdle ==
    /\ fetch_pc = "idle"
    /\ server = NoServer
    /\ page = 1
    /\ all_items = <<>>
    /\ total_pages = None
    /\ requested = <<>>
    /\ unique_items = <<>>

\* main of update_vendor_inventory.py not started
InventoryIdle ==
    /\ inv_pc = "idle"
    /\ vendor_ids = <<>>
    /\ args = NoArgs
    /\ vendor_pos = 0
    /\ uni_id = None
    /\ category = "retail"
    /\ cross_check = NoCrossCheck
    /\ to_post = <<>>
    /\ posted = <<>>
    /\ overall_added = 0
    /\ overall_failed = 0

\* no run of add_gst_numbers_to_universities before this one
NoRun == [db |-> <<>>, updated |-> 0, errors |-> 0]

\* add_gst_numbers_to_universities not called
GstIdle ==
    /\ gst_pc = "idle"
    /\ unis = <<>>
    /\ universities = <<>>
    /\ uni_pos = 0
    /\ updated_count = 0
    /\ skipped_count = 0
    /\ gst_errors = 0
    /\ gst_runs = 0
    /\ previous_run = NoRun

\* the other scripts of the repository are not running
ScriptsIdle == FetchIdle /\ InventoryIdle /\ GstIdle

(***************************************************************************)
(* Init: main() has created the tester (__init__) and not yet awaited      *)
(* setup.                                                                  *)
(***************************************************************************)
Init ==
    /\ phase = "constructed"
    /\ num_users = 0
    /\ max_concurrent = 0
    /\ latency \in Durations
    /\ ScriptsIdle
    /\ sem_value = 0
    /\ waiters = <<>>
    /\ pc = <<>>
    /\ workflow_result = <<>>
    /\ results = EmptyResults
    /\ calls = <<>>
    /\ otps = {}
    /\ pending = <<>>
    /\ run_results = <<>>
    /\ successful_workflows = 0
    /\ main_pc = "setup"
    /\ session = "None"
    /\ mongo_client = "None"
    /\ start_time = None
    /\ now = 1
    /\ report = NoReport
    /\ users = {}
    /\ cleanup_log = <<>>
    /\ interrupted = FALSE
    /\ exit_status = "running"
    /\ lookup = NoLookup

(***************************************************************************)
(* run_load_test up to its await of gather: the semaphore is created and   *)
(* one task per user index, in index order.                                *)
(***************************************************************************)
run_load_test(n, k) ==
    /\ main_pc = "run"
    /\ phase = "constructed"
    /\ phase' = "running"
    /\ main_pc' = "gather"
    /\ start_time' = now
    /\ num_users' = n
    /\ max_concurrent' = k
    /\ sem_value' = k
    /\ waiters' = [i \in 1..n |-> i - 1]
    /\ pc' = [w \in 0..(n - 1) |-> "waiting"]
    /\ workflow_result' = [w \in 0..(n - 1) |-> NewWorkflowResult]
    /\ calls' = [w \in 0..(n - 1) |-> <<>>]
    /\ pending' = [w \in 0..(n - 1) |-> 0]
    /\ UNCHANGED <<latency, results, otps, run_results, successful_workflows,
                   session, mongo_client, now, report, users, cleanup_log,
                   interrupted, exit_status, lookup>>
    /\ UNCHANGED scriptVars

(***************************************************************************)
(* limited_workflow: the first waiting task takes a free slot and runs     *)
(* test_user_workflow up to the await of the signup request.               *)
(***************************************************************************)
limited_workflow(w) ==
    /\ phase = "running"
    /\ waiters # <<>>
    /\ Head(waiters) = w
    /\ sem_value > 0
    /\ sem_value' = SemaphoreEnter(sem_value)
    /\ waiters' = Tail(waiters)
    /\ pc' = [pc EXCEPT ![w] = "signup"]
    /\ workflow_result' = [workflow_result EXCEPT ![w] = NewWorkflowResult]
    /\ calls' = [calls EXCEPT ![w] = <<Call("signup", None)>>]
    /\ UNCHANGED <<phase, num_users, max_concurrent, latency, results, otps,
                   pending, run_results, successful_workflows>>
    /\ UNCHANGED mainVars
    /\ UNCHANGED scriptVars

(***************************************************************************)
(* The ends of test_user_workflow.  Returns: the four trailing ifs, then   *)
(* the return through "async with".  Raises: an exception of a step call   *)
(* leaves test_user_workflow at once, through "async with" as well.        *)
(***************************************************************************)
\* a failure that does not stop the next request
ReturnsAfterNextRequest(w, res, wr, issued) ==
    /\ results' = UpdateIncomplete(res, wr)
    /\ workflow_result' = [workflow_result EXCEPT ![w] = wr]
    /\ pc' = [pc EXCEPT ![w] = "done"]
    /\ sem_value' = SemaphoreExit(sem_value, FALSE)
    /\ calls' = [calls EXCEPT ![w] = @ \o issued \o <<Call("login", None)>>]

Returns(w, res, wr, issued) ==
    /\ results' = UpdateIncomplete(res, wr)
    /\ workflow_result' = [workflow_result EXCEPT ![w] = wr]
    /\ pc' = [pc EXCEPT ![w] = "done"]
    /\ sem_value' = SemaphoreExit(sem_value, FALSE)
    /\ calls' = [calls EXCEPT ![w] = @ \o issued]

Raises(w) ==
    /\ results' = results
    /\ workflow_result' = workflow_result
    /\ pc' = [pc EXCEPT ![w] = "raised"]
    /\ sem_value' = SemaphoreExit(sem_value, TRUE)
    /\ calls' = calls

\* every request and read issued a second time
ContinuesWithRetry(w, res, wr, next, issued) ==
    /\ results' = res
    /\ workflow_result' = [workflow_result EXCEPT ![w] = wr]
    /\ pc' = [pc EXCEPT ![w] = next]
    /\ sem_value' = sem_value
    /\ calls' = [calls EXCEPT ![w] = @ \o issued \o issued]

\* test_user_workflow goes on to its next await, having issued `issued`
Continues(w, res, wr, next, issued) ==
    /\ results' = res
    /\ workflow_result' = [workflow_result EXCEPT ![w] = wr]
    /\ pc' = [pc EXCEPT ![w] = next]
    /\ sem_value' = sem_value
    /\ calls' = [calls EXCEPT ![w] = @ \o issued]

\* the server issues an OTP for the user of task w when `issues`
ServerIssues(w, issues) ==
    pending' = [pending EXCEPT ![w] = IF issues THEN @ + 1 ELSE @]

(***************************************************************************)
(* Step 1: the signup response arrives.                                    *)
(***************************************************************************)
SignupResponse(w, r) ==
    /\ phase = "running"
    /\ pc[w] = "signup"
    /\ LET sr  == test_signup(r, latency)
           res == AppendTime(results, "signup", sr.duration)
           wr  == [workflow_result[w] EXCEPT !["signup"] = sr.success]
       IN  IF sr.raises THEN Raises(w)
           ELSE IF sr.success
                THEN Continues(w, IncrSuccess(res, "signup"), wr, "sleep_otp", <<>>)
                ELSE Returns(w, IncrFailed(res, "signup"), wr, <<>>)
    /\ ServerIssues(w, ~r.raised /\ r.status = HTTP_CREATED /\ r.json_ok)
    /\ UNCHANGED <<phase, num_users, max_concurrent, latency, waiters, otps,
                   run_results, successful_workflows>>
    /\ UNCHANGED mainVars
    /\ UNCHANGED scriptVars

(***************************************************************************)
(* Step 2: asyncio.sleep(1) is over; the OTP is read once and, when there  *)
(* is one, the verification request is sent.                               *)
(***************************************************************************)
OtpRead(w, db_ok) ==
    /\ phase = "running"
    /\ pc[w] = "sleep_otp"
    /\ LET otp == get_otp_from_mongodb(generate_test_user(w).email, otps, db_ok)
       IN  IF otp # None
           THEN Continues(w, results, workflow_result[w], "otp_verification",
                          <<Call("get_otp", otp), Call("otp_verification", otp)>>)
           ELSE Returns(w, IncrFailed(results, "otp_verification"),
                        workflow_result[w], <<Call("get_otp", otp)>>)
    /\ UNCHANGED <<phase, num_users, max_concurrent, latency, waiters, otps,
                   pending, run_results, successful_workflows>>
    /\ UNCHANGED mainVars
    /\ UNCHANGED scriptVars

(***************************************************************************)
(* Step 3: the OTP verification response arrives.                          *)
(***************************************************************************)
OtpVerificationResponse(w, r) ==
    /\ phase = "running"
    /\ pc[w] = "otp_verification"
    /\ LET sr  == test_otp_verification(r, latency)
           res == AppendTime(results, "otp_verification", sr.duration)
           wr  == [workflow_result[w] EXCEPT !["otp_verification"] = sr.success]
       IN  IF sr.raises THEN Raises(w)
           ELSE IF sr.success
                THEN Continues(w, IncrSuccess(res, "otp_verification"), wr, "login",
                               <<Call("login", None)>>)
                ELSE Returns(w, IncrFailed(res, "otp_verification"), wr, <<>>)
    /\ UNCHANGED <<phase, num_users, max_concurrent, latency, waiters, otps,
                   pending, run_results, successful_workflows>>
    /\ UNCHANGED mainVars
    /\ UNCHANGED scriptVars

(***************************************************************************)
(* Step 4: the login response arrives.                                     *)
(***************************************************************************)
LoginResponse(w, r) ==
    /\ phase = "running"
    /\ pc[w] = "login"
    /\ LET sr  == test_login(r, latency)
           res == AppendTime(results, "login", sr.duration)
           wr  == [workflow_result[w] EXCEPT !["login"] = sr.success]
       IN  IF sr.raises THEN Raises(w)
           ELSE IF sr.success
                THEN Continues(w, IncrSuccess(res, "login"), wr, "forgot_password",
                               <<Call("forgot_password", None)>>)
                ELSE Returns(w, IncrFailed(res, "login"), wr, <<>>)
    /\ UNCHANGED <<phase, num_users, max_concurrent, latency, waiters, otps,
                   pending, run_results, successful_workflows>>
    /\ UNCHANGED mainVars
    /\ UNCHANGED scriptVars

(***************************************************************************)
(* Step 5: the forgot-password response arrives.                           *)
(***************************************************************************)
ForgotPasswordResponse(w, r) ==
    /\ phase = "running"
    /\ pc[w] = "forgot_password"
    /\ LET sr  == test_forgot_password(r, latency)
           res == AppendTime(results, "forgot_password", sr.duration)
           wr  == [workflow_result[w] EXCEPT !["forgot_password"] = sr.success]
       IN  IF sr.raises THEN Raises(w)
           ELSE IF sr.success
                THEN Continues(w, IncrSuccess(res, "forgot_password"), wr,
                               "sleep_reset_otp", <<>>)
                ELSE Returns(w, IncrFailed(res, "forgot_password"), wr, <<>>)
    /\ ServerIssues(w, ~r.raised /\ r.status = HTTP_OK)
    /\ UNCHANGED <<phase, num_users, max_concurrent, latency, waiters, otps,
                   run_results, successful_workflows>>
    /\ UNCHANGED mainVars
    /\ UNCHANGED scriptVars

(***************************************************************************)
(* Step 6: the second asyncio.sleep(1) is over; the reset OTP is read once *)
(* and, when there is one, the reset request is sent.                      *)
(***************************************************************************)
ResetOtpRead(w, db_ok) ==
    /\ phase = "running"
    /\ pc[w] = "sleep_reset_otp"
    /\ LET reset_otp == get_otp_from_mongodb(generate_test_user(w).email, otps, db_ok)
       IN  IF reset_otp # None
           THEN Continues(w, results, workflow_result[w], "reset_password",
                          <<Call("get_otp", reset_otp), Call("reset_password", reset_otp)>>)
           ELSE Returns(w, IncrFailed(results, "reset_password"),
                        workflow_result[w], <<Call("get_otp", reset_otp)>>)
    /\ UNCHANGED <<phase, num_users, max_concurrent, latency, waiters, otps,
                   pending, run_results, successful_workflows>>
    /\ UNCHANGED mainVars
    /\ UNCHANGED scriptVars

(***************************************************************************)
(* The reset-password response arrives; test_user_workflow returns.        *)
(***************************************************************************)
ResetPasswordResponse(w, r) ==
    /\ phase = "running"
    /\ pc[w] = "reset_password"
    /\ LET sr  == test_reset_password(r, latency)
           res == AppendTime(results, "reset_password", sr.duration)
           wr  == [workflow_result[w] EXCEPT !["reset_password"] = sr.success]
       IN  IF sr.raises THEN Raises(w)
           ELSE IF sr.success
                THEN Returns(w, IncrSuccess(res, "reset_password"), wr, <<>>)
                ELSE Returns(w, IncrFailed(res, "reset_password"), wr, <<>>)
    /\ UNCHANGED <<phase, num_users, max_concurrent, latency, waiters, otps,
                   pending, run_results, successful_workflows>>
    /\ UNCHANGED mainVars
    /\ UNCHANGED scriptVars

(***************************************************************************)
(* The system under test persists an OTP it has issued: a record of the    *)
(* user's email, newer than the records the email already has.             *)
(***************************************************************************)
ServerOtpCode(w, k) == 10 * (w + 1) + k

ServerPersistOtp(w) ==
    /\ phase = "running"
    /\ pc[w] \in Holding
    /\ pending[w] > 0
    /\ LET email == generate_test_user(w).email
           k     == Cardinality({r \in otps : r.email = email}) + 1
       IN  otps' = otps \cup {[email |-> email, otp |-> ServerOtpCode(w, k), createdAt |-> k]}
    /\ pending' = [pending EXCEPT ![w] = @ - 1]
    /\ UNCHANGED <<phase, num_users, max_concurrent, latency, sem_value, waiters, pc,
                   workflow_result, results, calls, run_results, successful_workflows>>
    /\ UNCHANGED mainVars
    /\ UNCHANGED scriptVars

(***************************************************************************)
(* asyncio.gather with return_exceptions=True returns when every task     *)
(* has returned or raised; run_load_test tallies and returns.              *)
(***************************************************************************)
GatherResult(w) ==
    [exception  |-> pc[w] # "done",
     user_index |-> w,
     email      |-> generate_test_user(w).email,
     success    |-> workflow_result[w]]

\* a tally of the workflows that went through to the end
CountComplete(rs) ==
    Cardinality({i \in 1..Len(rs) : ~rs[i].exception /\ rs[i].success["reset_password"]})

CountSuccessful(rs) ==
    Cardinality({i \in 1..Len(rs) : ~rs[i].exception /\ rs[i].success["login"]})

\* gather returning as soon as one task has finished
GatherReturnsAtFirstResult ==
    /\ phase = "running"
    /\ \E w \in Tasks : pc[w] \in {"done", "raised"}
    /\ LET rs == [i \in 1..num_users |-> GatherResult(i - 1)]
       IN  /\ run_results' = rs
           /\ successful_workflows' = CountSuccessful(rs)
    /\ phase' = "returned"
    /\ main_pc' = "report"
    /\ UNCHANGED <<num_users, max_concurrent, latency, sem_value, waiters, pc,
                   workflow_result, results, calls, otps, pending,
                   session, mongo_client, start_time, now, report, users,
                   cleanup_log, interrupted, exit_status, lookup>>
    /\ UNCHANGED scriptVars

GatherReturns ==
    /\ phase = "running"
    /\ \A w \in Tasks : pc[w] \in {"done", "raised"}
    /\ LET rs == [i \in 1..num_users |-> GatherResult(i - 1)]
       IN  /\ run_results' = rs
           /\ successful_workflows' = CountSuccessful(rs)
    /\ phase' = "returned"
    /\ main_pc' = "report"
    /\ UNCHANGED <<num_users, max_concurrent, latency, sem_value, waiters, pc,
                   workflow_result, results, calls, otps, pending,
                   session, mongo_client, start_time, now, report, users,
                   cleanup_log, interrupted, exit_status, lookup>>
    /\ UNCHANGED scriptVars

(***************************************************************************)
(* An operator interrupt while run_load_test awaits gather: the main task  *)
(* is cancelled and gather cancels every task that has not finished.  Each *)
(* of them gets CancelledError at its await, in task order and before any  *)
(* other callback of the loop runs: one that is inside "async with         *)
(* semaphore" leaves it, one that waits for a slot stops waiting.          *)
(***************************************************************************)
RECURSIVE CancelAll(_, _)
CancelAll(value, holders) ==
    IF holders = {} THEN value
    ELSE LET w == CHOOSE x \in holders : \A y \in holders : x <= y
         IN  CancelAll(SemaphoreExit(value, TRUE), holders \ {w})

Interrupt ==
    /\ phase = "running"
    /\ phase' = "interrupted"
    /\ pc' = [w \in Tasks |-> IF pc[w] \in Finished THEN pc[w] ELSE "cancelled"]
    /\ waiters' = <<>>
    /\ sem_value' = CancelAll(sem_value, {w \in Tasks : pc[w] \in Holding})
    /\ interrupted' = TRUE
    /\ main_pc' = "finally"
    /\ UNCHANGED <<num_users, max_concurrent, latency, workflow_result, results,
                   calls, otps, pending, run_results, successful_workflows,
                   session, mongo_client, start_time, now, report, users,
                   cleanup_log, exit_status, lookup>>
    /\ UNCHANGED scriptVars

(***************************************************************************)
(* main(): setup, run_load_test, print_results, the prompt, the optional   *)
(* cleanup_test_data, and tester.cleanup() in the finally clause.          *)
(***************************************************************************)
SetupOutcomes == {"ok", "session fails", "mongo fails"}

\* setup: the session is created first, then the database client; an
\* exception of either constructor is caught by main's "except Exception"
setup(outcome) ==
    /\ main_pc = "setup"
    /\ session' = IF outcome = "session fails" THEN "None" ELSE "open"
    /\ mongo_client' = IF outcome = "ok" THEN "open" ELSE "None"
    /\ main_pc' = IF outcome = "ok" THEN "run" ELSE "finally"
    /\ UNCHANGED <<phase, num_users, max_concurrent, latency, sem_value, waiters,
                   pc, workflow_result, results, calls, otps, pending,
                   run_results, successful_workflows, start_time, now, report,
                   users, cleanup_log, interrupted, exit_status, lookup>>
    /\ UNCHANGED scriptVars

\* print_results reads the clock, which has or has not advanced since
\* run_load_test read it; an exception of print_results is caught by main's
\* "except Exception"
print_results(advanced) ==
    /\ main_pc = "report"
    /\ now' = IF advanced THEN now + 1 ELSE now
    /\ report' = PrintResults(results, start_time, now')
    /\ main_pc' = IF report'.raised THEN "finally" ELSE "prompt"
    /\ UNCHANGED <<phase, num_users, max_concurrent, latency, sem_value, waiters,
                   pc, workflow_result, results, calls, otps, pending,
                   run_results, successful_workflows, session, mongo_client,
                   start_time, users, cleanup_log, interrupted, exit_status,
                   lookup>>
    /\ UNCHANGED scriptVars

\* input("Do you want to clean up test data? (y/n)")
\* what the operator may type, as the sequence of its characters
PromptAnswers ==
    {<<"y">>, <<"Y">>, <<" ", "y", " ">>, <<"n">>, <<"N">>, <<"y", "e", "s">>,
     <<"y", " ">>, <<>>, <<" ">>}

\* str.lower() on the characters that occur
LowerChar(c) == CASE c = "Y" -> "y" [] c = "N" -> "n" [] OTHER -> c

Lower(answer) == [i \in 1..Len(answer) |-> LowerChar(answer[i])]

RECURSIVE LStrip(_)
LStrip(q) == IF q # <<>> /\ Head(q) = " " THEN LStrip(Tail(q)) ELSE q

RECURSIVE RStrip(_)
RStrip(q) ==
    IF q # <<>> /\ q[Len(q)] = " " THEN RStrip(SubSeq(q, 1, Len(q) - 1)) ELSE q

\* str.strip()
Strip(q) == RStrip(LStrip(q))

\* cleanup == 'y' for cleanup = input(...).lower().strip()
Confirms(answer) == Strip(Lower(answer)) = <<"y">>

\* the prompt that answers anything as a confirmation
PromptAlwaysCleans(answer) ==
    /\ main_pc = "prompt"
    /\ main_pc' = "cleanup_data"
    /\ UNCHANGED <<phase, num_users, max_concurrent, latency, sem_value, waiters,
                   pc, workflow_result, results, calls, otps, pending,
                   run_results, successful_workflows, session, mongo_client,
                   start_time, now, report, users, cleanup_log, interrupted,
                   exit_status, lookup>>
    /\ UNCHANGED scriptVars

Prompt(answer) ==
    /\ main_pc = "prompt"
    /\ main_pc' = IF Confirms(answer) THEN "cleanup_data" ELSE "finally"
    /\ UNCHANGED <<phase, num_users, max_concurrent, latency, sem_value, waiters,
                   pc, workflow_result, results, calls, otps, pending,
                   run_results, successful_workflows, session, mongo_client,
                   start_time, now, report, users, cleanup_log, interrupted,
                   exit_status, lookup>>
    /\ UNCHANGED scriptVars

\* the pattern without its anchors and its domain: "testuser" anywhere
EmailMatchesUnanchored(email) ==
    \E i \in 1..Len(email) : email[i] \in {"testuser", "xtestuser"}

\* ^testuser\d+@test\.com$ on an email kept as <<local part, digits, domain>>
EmailMatches(email) ==
    /\ Len(email) = 3
    /\ email[1] = "testuser"
    /\ email[2] \in Nat
    /\ email[3] = "@test.com"

\* delete_many({'email': {'$regex': ...}}): what is left, and deleted_count
DeleteMany(collection) ==
    [left    |-> {r \in collection : ~EmailMatches(r.email)},
     deleted |-> Cardinality({r \in collection : EmailMatches(r.email)})]

DeletedLog(what, count) == [level |-> "info", what |-> what, count |-> count]

ErrorLog == [level |-> "error", what |-> "cleanup", count |-> 0]

CleanupFailures == {"none", "users", "otps"}

\* cleanup_test_data without its except clause
CleanupTestDataUncaught(fail_at, user_store, otp_store) ==
    LET du == DeleteMany(user_store)
        do == DeleteMany(otp_store)
    IN CASE fail_at = "users" ->
              [users |-> user_store, otps |-> otp_store, log |-> <<>>,
               raises |-> TRUE]
         [] fail_at = "otps" ->
              [users |-> du.left, otps |-> otp_store,
               log |-> <<DeletedLog("users", du.deleted)>>,
               raises |-> TRUE]
         [] OTHER ->
              [users |-> du.left, otps |-> do.left,
               log |-> <<DeletedLog("users", du.deleted),
                         DeletedLog("otps", do.deleted)>>,
               raises |-> FALSE]

\* cleanup_test_data: the users, then the OTPs; the data store may raise at
\* either delete_many, and the except clause logs the error
CleanupTestData(fail_at, user_store, otp_store) ==
    LET du == DeleteMany(user_store)
        do == DeleteMany(otp_store)
    IN CASE fail_at = "users" ->
              [users |-> user_store, otps |-> otp_store, log |-> <<ErrorLog>>,
               raises |-> FALSE]
         [] fail_at = "otps" ->
              [users |-> du.left, otps |-> otp_store,
               log |-> <<DeletedLog("users", du.deleted), ErrorLog>>,
               raises |-> FALSE]
         [] OTHER ->
              [users |-> du.left, otps |-> do.left,
               log |-> <<DeletedLog("users", du.deleted),
                         DeletedLog("otps", do.deleted)>>,
               raises |-> FALSE]

cleanup_test_data(fail_at) ==
    /\ main_pc = "cleanup_data"
    /\ LET out == CleanupTestData(fail_at, users, otps)
       IN  /\ users' = out.users
           /\ otps' = out.otps
           /\ cleanup_log' = out.log
    /\ main_pc' = "finally"
    /\ UNCHANGED <<phase, num_users, max_concurrent, latency, sem_value, waiters,
                   pc, workflow_result, results, calls, pending, run_results,
                   successful_workflows, session, mongo_client, start_time, now,
                   report, interrupted, exit_status, lookup>>
    /\ UNCHANGED scriptVars

\* a cleanup that closes nothing
CloseNothing(handle) == handle

\* "if self.session: await self.session.close()", and the same for the client
Close(handle) == IF handle # "None" THEN "closed" ELSE handle

\* the interrupt swallowed: main returns as after a normal run
cleanupThenReturns ==
    /\ main_pc = "finally"
    /\ session' = Close(session)
    /\ mongo_client' = Close(mongo_client)
    /\ main_pc' = "exited"
    /\ exit_status' = "0"
    /\ UNCHANGED <<phase, num_users, max_concurrent, latency, sem_value, waiters,
                   pc, workflow_result, results, calls, otps, pending,
                   run_results, successful_workflows, start_time, now, report,
                   users, cleanup_log, interrupted, lookup>>
    /\ UNCHANGED scriptVars

\* finally: await tester.cleanup(); then main returns and asyncio.run
\* returns, or re-raises the interrupt that cancelled main
cleanup ==
    /\ main_pc = "finally"
    /\ session' = Close(session)
    /\ mongo_client' = Close(mongo_client)
    /\ main_pc' = "exited"
    /\ exit_status' = IF interrupted THEN "nonzero" ELSE "0"
    /\ UNCHANGED <<phase, num_users, max_concurrent, latency, sem_value, waiters,
                   pc, workflow_result, results, calls, otps, pending,
                   run_results, successful_workflows, start_time, now, report,
                   users, cleanup_log, interrupted, lookup>>
    /\ UNCHANGED scriptVars

Next ==
    \/ \E outcome \in SetupOutcomes : setup(outcome)
    \/ \E n \in 1..MaxUsers, k \in 1..MaxCap : run_load_test(n, k)
    \/ \E w \in Tasks : limited_workflow(w)
    \/ \E w \in Tasks, r \in Responses : SignupResponse(w, r)
    \/ \E w \in Tasks, db_ok \in BOOLEAN : OtpRead(w, db_ok)
    \/ \E w \in Tasks, r \in Responses : OtpVerificationResponse(w, r)
    \/ \E w \in Tasks, r \in Responses : LoginResponse(w, r)
    \/ \E w \in Tasks, r \in Responses : ForgotPasswordResponse(w, r)
    \/ \E w \in Tasks, db_ok \in BOOLEAN : ResetOtpRead(w, db_ok)
    \/ \E w \in Tasks, r \in Responses : ResetPasswordResponse(w, r)
    \/ \E w \in Tasks : ServerPersistOtp(w)
    \/ GatherReturns
    \/ Interrupt
    \/ \E advanced \in BOOLEAN : print_results(advanced)
    \/ \E answer \in PromptAnswers : Prompt(answer)
    \/ \E fail_at \in CleanupFailures : cleanup_test_data(fail_at)
    \/ cleanup

Spec == Init /\ [][Next]_vars

(***************************************************************************)
(* The scenario in which the system under test never fails: every request  *)
(* gets its success status with a JSON body, the data store answers, and   *)
(* the server has persisted the OTP it issued before the harness reads it. *)
(***************************************************************************)
OkResponse(status) == [raised |-> FALSE, status |-> status, json_ok |-> TRUE]

NextAllOk ==
    \/ setup("ok")
    \/ run_load_test(ScenarioUsers, ScenarioCap)
    \/ \E w \in Tasks : limited_workflow(w)
    \/ \E w \in Tasks : SignupResponse(w, OkResponse(HTTP_CREATED))
    \/ \E w \in Tasks : pending[w] = 0 /\ OtpRead(w, TRUE)
    \/ \E w \in Tasks : OtpVerificationResponse(w, OkResponse(HTTP_OK))
    \/ \E w \in Tasks : LoginResponse(w, OkResponse(HTTP_OK))
    \/ \E w \in Tasks : ForgotPasswordResponse(w, OkResponse(HTTP_OK))
    \/ \E w \in Tasks : pending[w] = 0 /\ ResetOtpRead(w, TRUE)
    \/ \E w \in Tasks : ResetPasswordResponse(w, OkResponse(HTTP_OK))
    \/ \E w \in Tasks : ServerPersistOtp(w)
    \/ GatherReturns

SpecAllOk == Init /\ [][NextAllOk]_vars

(***************************************************************************)
(* What the claims speak of.                                               *)
(***************************************************************************)
LaterSteps == Steps \ {"signup"}

HttpCalls(w) == SelectSeq(calls[w], LAMBDA c : c.op # "get_otp")

OtpReads(w) == SelectSeq(calls[w], LAMBDA c : c.op = "get_otp")

\* the tasks that have issued the request of step s
Called(w, s) == \E i \in 1..Len(calls[w]) : calls[w][i].op = s

AllReturned == phase = "returned" /\ \A w \in Tasks : pc[w] = "done"

\* C1: once run_load_test has completed its N workflows, success + failed
\* of every step is N
C1_SuccessPlusFailedIsN ==
    AllReturned =>
        \A s \in Steps : results[s].success + results[s].failed = num_users

\* C2: when every signup succeeded and every OTP lookup found nothing, the
\* table is signup N/0 and 0/N for each later step, and no request was sent
\* after the signup
C2_NoOtpScenario ==
    (/\ AllReturned
     /\ \A w \in Tasks : /\ workflow_result[w]["signup"]
                         /\ OtpReads(w) = <<Call("get_otp", None)>>)
    => /\ results["signup"].success = num_users
       /\ results["signup"].failed = 0
       /\ \A s \in LaterSteps : /\ results[s].success = 0
                                /\ results[s].failed = num_users
       /\ \A w \in Tasks : HttpCalls(w) = <<Call("signup", None)>>

\* C3: a workflow whose signup fails adds one sample to signup and none to a
\* later step, adds one to the failed counter of signup and of every later
\* step, and sends no further request
C3_SignupFailure ==
    [][\A w \in Tasks :
          (pc[w] = "signup" /\ pc'[w] = "done")
          => /\ results'["signup"].times = Append(results["signup"].times, latency)
             /\ \A s \in LaterSteps : results'[s].times = results[s].times
             /\ \A s \in Steps : /\ results'[s].failed = results[s].failed + 1
                                 /\ results'[s].success = results[s].success
             /\ calls'[w] = <<Call("signup", None)>>
             /\ \A s \in Steps : ~workflow_result'[w][s]]_vars

C3_Witness ==
    \E w \in Tasks : /\ pc[w] = "done"
                     /\ ~workflow_result[w]["signup"]
                     /\ results["reset_password"].failed > 0

\* C4: at most max_concurrent workflows are inside test_user_workflow
InFlight == {w \in Tasks : pc[w] \in Holding}

C4_AtMostCapInFlight ==
    phase # "constructed" => Cardinality(InFlight) <= max_concurrent

C4_Witness ==
    /\ phase = "running"
    /\ num_users > max_concurrent
    /\ Cardinality(InFlight) = max_concurrent
    /\ waiters # <<>>

\* C5: with cap ScenarioCap and ScenarioUsers workflows whose every step
\* succeeds, the final table is success = ScenarioUsers and failed = 0 for
\* each step, and run_load_test counts ScenarioUsers successful workflows
C5_AllSucceed ==
    AllReturned =>
        /\ \A s \in Steps : /\ results[s].success = ScenarioUsers
                            /\ results[s].failed = 0
        /\ successful_workflows = ScenarioUsers
        /\ Len(run_results) = ScenarioUsers

C5_Witness ==
    /\ AllReturned
    /\ num_users = ScenarioUsers
    /\ max_concurrent = ScenarioCap
    /\ \A w \in Tasks : \A s \in Steps : workflow_result[w][s]

\* the index of the first step of wr that did not succeed, one past the last
\* step when all did
FirstFailed(wr) ==
    IF \A s \in Steps : wr[s] THEN Len(StepNames) + 1
    ELSE CHOOSE i \in 1..Len(StepNames) :
            /\ ~wr[StepNames[i]]
            /\ \A j \in 1..(i - 1) : wr[StepNames[j]]

\* C6: one workflow gives one duration and one success-or-failed count to
\* every step up to and including its first failed step, a missing OTP
\* included, and one failed count and no duration to every later step
C6_OneCountPerStep ==
    (AllReturned /\ num_users = 1) =>
        \A i \in 1..Len(StepNames) :
            LET s == StepNames[i]
            IN  IF i <= FirstFailed(workflow_result[0])
                THEN /\ Len(results[s].times) = 1
                     /\ results[s].success + results[s].failed = 1
                ELSE /\ Len(results[s].times) = 0
                     /\ results[s].success = 0
                     /\ results[s].failed = 1

\* C7: a workflow issues signup, OTP read, OTP verification, login,
\* forgot-password, OTP read, reset-password in this order, each only after
\* every earlier step succeeded and its OTP was found, and nothing after its
\* first failure
WorkflowOrder ==
    <<"signup", "get_otp", "otp_verification", "login", "forgot_password",
      "get_otp", "reset_password">>

\* the steps that must have succeeded before the i-th operation is issued
StepsBefore(i) ==
    CASE i <= 1 -> {}
      [] i <= 3 -> {"signup"}
      [] i = 4  -> {"signup", "otp_verification"}
      [] i = 5  -> {"signup", "otp_verification", "login"}
      [] OTHER  -> {"signup", "otp_verification", "login", "forgot_password"}

C7_StepsInOrder ==
    \A w \in Tasks :
        LET cs == calls[w]
            n  == Len(cs)
        IN  /\ n <= Len(WorkflowOrder)
            /\ \A i \in 1..n :
                  /\ cs[i].op = WorkflowOrder[i]
                  /\ \A t \in StepsBefore(i) : workflow_result[w][t]
                  /\ cs[i].op \in {"otp_verification", "reset_password"}
                        => /\ cs[i - 1].otp # None
                           /\ cs[i].otp = cs[i - 1].otp
            \* a request is awaited iff it is the last one issued
            /\ pc[w] \in Steps => (n > 0 /\ cs[n].op = pc[w])
            /\ pc[w] \in {"sleep_otp", "sleep_reset_otp"}
                  => (n > 0 /\ cs[n].op \in Steps /\ workflow_result[w][cs[n].op])
            \* a returned workflow that failed issued nothing after its failure
            /\ (pc[w] = "done" /\ FirstFailed(workflow_result[w]) <= Len(StepNames))
                  => /\ n > 0
                     /\ \/ cs[n] = Call("get_otp", None)
                        \/ cs[n].op = StepNames[FirstFailed(workflow_result[w])]
                     /\ \A i \in 1..(n - 1) :
                           cs[i].op \in Steps => workflow_result[w][cs[i].op]

C7_Witness ==
    \E w \in Tasks :
        /\ pc[w] = "done"
        /\ Len(calls[w]) = Len(WorkflowOrder)
        /\ \E v \in Tasks : pc[v] = "done" /\ ~workflow_result[v]["login"]
                            /\ Called(v, "login")

\* C8: the slot of a workflow is given back on every way out (return, step
\* failure, exception), so free slots + workflows inside is always the cap
\* and every slot is free once all workflows have finished
C8_SlotsReleased ==
    phase # "constructed" =>
        /\ sem_value + Cardinality(InFlight) = max_concurrent
        /\ (\A w \in Tasks : pc[w] \in Finished) => sem_value = max_concurrent

C8_Witness ==
    /\ phase = "interrupted"
    /\ max_concurrent = 1
    /\ num_users = 2
    /\ pc[0] = "done" /\ ~workflow_result[0]["login"] /\ Called(0, "login")
    /\ pc[1] = "cancelled" /\ calls[1] # <<>>
    /\ sem_value = max_concurrent

\* C9: no update of the shared table is lost: in every state each counter and
\* each list of durations is the sum of what the workflows have contributed
RECURSIVE SumOver(_, _, _)
SumOver(F(_, _), S, s) ==
    IF S = {} THEN 0
    ELSE LET w == CHOOSE x \in S : TRUE
         IN  F(w, s) + SumOver(F, S \ {w}, s)

\* what task w alone adds to the failed counter of step s: nothing before it
\* returns; then one for its first failed step and one for each later step
\* whose flag is false
FailedBy(w, s) ==
    IF pc[w] # "done" \/ workflow_result[w][s] THEN 0
    ELSE (IF StepNames[FirstFailed(workflow_result[w])] = s THEN 1 ELSE 0)
         + (IF s # "signup" THEN 1 ELSE 0)

\* task w has handled the response of step s
Completed(w, s) == workflow_result[w][s] \/ (pc[w] = "done" /\ Called(w, s))

C9_NoLostUpdate ==
    \A s \in Steps :
        /\ results[s].success = Cardinality({w \in Tasks : workflow_result[w][s]})
        /\ Len(results[s].times) = Cardinality({w \in Tasks : Completed(w, s)})
        /\ \A i \in 1..Len(results[s].times) : results[s].times[i] = latency
        /\ results[s].failed = SumOver(FailedBy, Tasks, s)

C9_Witness ==
    /\ phase = "running"
    /\ num_users = 2
    /\ pc[0] = "login"
    /\ pc[1] = "login"
    /\ results["otp_verification"].success = 2
    /\ Len(results["signup"].times) = 2

\* C10: an exception or an unexpected status of a step call is a failure of
\* that step; test_user_workflow never raises and each task returns its
\* workflow_result dictionary
BadSignupResponse(r) == r.raised \/ r.status # HTTP_CREATED

BadResponse(r) == r.raised \/ r.status # HTTP_OK

C10_NeverRaises ==
    /\ \A r \in Responses, d \in Durations :
          /\ ~test_signup(r, d).raises
          /\ ~test_otp_verification(r, d).raises
          /\ ~test_login(r, d).raises
          /\ ~test_forgot_password(r, d).raises
          /\ ~test_reset_password(r, d).raises
          /\ BadSignupResponse(r) => ~test_signup(r, d).success
          /\ BadResponse(r) => /\ ~test_otp_verification(r, d).success
                               /\ ~test_login(r, d).success
                               /\ ~test_forgot_password(r, d).success
                               /\ ~test_reset_password(r, d).success
    /\ \A w \in Tasks : pc[w] # "raised"
    /\ phase = "returned" =>
          /\ Len(run_results) = num_users
          /\ \A i \in 1..num_users :
                /\ ~run_results[i].exception
                /\ run_results[i].user_index = i - 1
                /\ run_results[i].success = workflow_result[i - 1]

C10_Witness ==
    /\ phase = "returned"
    /\ \E i \in 1..num_users :
          /\ run_results[i].success["signup"]
          /\ ~run_results[i].success["otp_verification"]
          /\ Called(i - 1, "otp_verification")
    /\ \E i \in 1..num_users : ~run_results[i].success["signup"]

\* C11: a failure of one workflow never aborts the batch: the end of one
\* workflow, failed or not, leaves the run going and the other workflows as
\* they are, and run_load_test returns only when all N workflows have run to
\* their end, with N results
WorkflowFailed(wr) == \E s \in Steps : ~wr[s]

C11_FailureNeverAbortsBatch ==
    [][/\ \A w \in Tasks :
             (pc[w] \notin Finished /\ pc'[w] \in {"done", "raised"})
             => /\ phase' = "running"
                /\ \A v \in Tasks \ {w} :
                      /\ pc'[v] = pc[v]
                      /\ workflow_result'[v] = workflow_result[v]
                      /\ calls'[v] = calls[v]
       /\ (phase = "running" /\ phase' = "returned")
             => /\ \A w \in Tasks : /\ pc[w] \in {"done", "raised"}
                                    /\ Called(w, "signup")
                /\ Len(run_results') = num_users
                /\ \A i \in 1..num_users : run_results'[i].user_index = i - 1]_vars

C11_Witness ==
    /\ phase = "returned"
    /\ num_users = 2
    /\ Len(run_results) = 2
    /\ WorkflowFailed(workflow_result[0])
    /\ ~workflow_result[0]["signup"]
    /\ \A s \in Steps : workflow_result[1][s]

(***************************************************************************)
(* print_results called on its own: a tester whose table holds the samples *)
(* of one step, whose start_time is None (run_load_test never ran) or a    *)
(* clock reading, and a clock that has or has not advanced since.          *)
(***************************************************************************)
SampleSeqs == UNION {[1..n -> Durations] : n \in 0..MaxSamples}

\* every sample comes with one count, and a failed count may come without one
StepDatas ==
    {d \in [success : 0..MaxSamples, failed : 0..MaxSamples, times : SampleSeqs] :
        /\ d.success <= Len(d.times)
        /\ Len(d.times) <= d.success + d.failed}

InitReport ==
    /\ phase = "returned"
    /\ num_users = 0
    /\ max_concurrent = 0
    /\ latency \in Durations
    /\ ScriptsIdle
    /\ sem_value = 0
    /\ waiters = <<>>
    /\ pc = <<>>
    /\ workflow_result = <<>>
    /\ \E s \in Steps, d \in StepDatas : results = [EmptyResults EXCEPT ![s] = d]
    /\ calls = <<>>
    /\ otps = {}
    /\ pending = <<>>
    /\ run_results = <<>>
    /\ successful_workflows = 0
    /\ main_pc = "report"
    /\ session = "open"
    /\ mongo_client = "open"
    /\ start_time \in {None} \cup 1..MaxClock
    /\ now \in 1..MaxClock
    /\ start_time <= now
    /\ report = NoReport
    /\ users = {}
    /\ cleanup_log = <<>>
    /\ interrupted = FALSE
    /\ exit_status = "running"
    /\ lookup = NoLookup

NextReport ==
    \/ \E advanced \in BOOLEAN : print_results(advanced)
    \/ cleanup

SpecReport == InitReport /\ [][NextReport]_vars

\* C12: print_results never divides by zero for the throughput: when the
\* total run time is zero it prints a sentinel and does not raise
C12_ThroughputNeverDividesByZero ==
    (report.at # "not called" /\ report.total_time = 0)
    => /\ ~report.raised
       /\ report.at = "printed"

InterruptStopsWorkflows ==
    phase = "interrupted"
    => /\ \A w \in Tasks : pc[w] \in Finished
       /\ waiters = <<>>
       /\ main_pc = "exited" => (session = "closed" /\ mongo_client = "closed")

C15_InterruptDiscardsPartial ==
    /\ InterruptStopsWorkflows
    /\ phase = "interrupted"
       => \A s \in Steps :
             /\ results[s].success
                   = Cardinality({w \in Tasks : pc[w] = "done" /\ workflow_result[w][s]})
             /\ Len(results[s].times)
                   = Cardinality({w \in Tasks : pc[w] = "done" /\ Completed(w, s)})

\* C16: the HTTP session and the database client are opened once, in setup
\* and before any workflow exists, and closed once, in the finally clause of
\* main and after every workflow has finished; a workflow acts only while
\* both are open, and main never ends with a handle still open
WorkflowActs ==
    \E w \in Tasks : /\ pc'[w] # pc[w]
                     /\ pc'[w] # "cancelled"

HandleLifecycle(handle, handle_next) ==
    handle_next # handle
    => \/ /\ handle = "None"
          /\ handle_next = "open"
          /\ main_pc = "setup"
          /\ phase = "constructed"
       \/ /\ handle = "open"
          /\ handle_next = "closed"
          /\ main_pc = "finally"
          /\ main_pc' = "exited"
          /\ phase # "running"
          /\ \A w \in DOMAIN pc : pc[w] \in Finished

C16_HandlesScoped ==
    [][/\ HandleLifecycle(session, session')
       /\ HandleLifecycle(mongo_client, mongo_client')
       /\ (WorkflowActs \/ phase' = "running")
             => /\ session = "open" /\ session' = "open"
                /\ mongo_client = "open" /\ mongo_client' = "open"
       /\ main_pc' = "exited"
             => /\ session' # "open"
                /\ mongo_client' # "open"
       /\ main_pc = "exited" => UNCHANGED <<session, mongo_client>>]_vars

C16_Witness ==
    /\ main_pc = "exited"
    /\ phase = "returned"
    /\ session = "closed"
    /\ mongo_client = "closed"
    /\ report.raised
    /\ \E w \in Tasks : Called(w, "login")

\* C17: no step is retried: a workflow issues each of its five HTTP calls at
\* most once and reads the OTP store at most twice, one read for each delay
\* it has sat out; a read that finds nothing is the last thing the workflow
\* does, and the step that needed the OTP is not called
TimesIssued(w, op) == Cardinality({i \in 1..Len(calls[w]) : calls[w][i].op = op})

\* the delays before an OTP read that task w has begun
DelaysBegun(w) ==
    (IF workflow_result[w]["signup"] THEN 1 ELSE 0)
    + (IF workflow_result[w]["forgot_password"] THEN 1 ELSE 0)

C17_NoRetry ==
    \A w \in Tasks :
        LET reads == TimesIssued(w, "get_otp")
            n     == Len(calls[w])
        IN  /\ \A s \in Steps : TimesIssued(w, s) <= 1
            /\ reads <= 2
            /\ reads <= DelaysBegun(w)
            /\ pc[w] # "cancelled"
                  => reads = DelaysBegun(w)
                             - (IF pc[w] \in {"sleep_otp", "sleep_reset_otp"} THEN 1 ELSE 0)
            /\ \A i \in 1..n :
                  calls[w][i] = Call("get_otp", None)
                  => /\ i = n
                     /\ pc[w] = "done"
                     /\ ~workflow_result[w][IF i = 2 THEN "otp_verification"
                                                     ELSE "reset_password"]
                     /\ ~Called(w, IF i = 2 THEN "otp_verification" ELSE "reset_password")

C17_Witness ==
    \E w \in Tasks :
        /\ pc[w] = "done"
        /\ TimesIssued(w, "get_otp") = 2
        /\ calls[w][Len(calls[w])] = Call("get_otp", None)
        /\ \E v \in Tasks : /\ pc[v] = "done"
                            /\ calls[v] = <<Call("signup", None), Call("get_otp", None)>>

(***************************************************************************)
(* get_otp_from_mongodb called on its own, on an OTP collection that holds *)
(* any records of the test users, while the server goes on inserting.      *)
(***************************************************************************)
LookupEmails == {generate_test_user(i).email : i \in 0..(MaxUsers - 1)}

OtpRecords == [email : LookupEmails, otp : 1..MaxCode, createdAt : 1..MaxStamp]

InitOtpLookup ==
    /\ phase = "constructed"
    /\ num_users = 0
    /\ max_concurrent = 0
    /\ latency \in Durations
    /\ ScriptsIdle
    /\ sem_value = 0
    /\ waiters = <<>>
    /\ pc = <<>>
    /\ workflow_result = <<>>
    /\ results = EmptyResults
    /\ calls = <<>>
    /\ otps \in {store \in SUBSET OtpRecords : Cardinality(store) <= MaxStore}
    /\ pending = <<>>
    /\ run_results = <<>>
    /\ successful_workflows = 0
    /\ main_pc = "lookup"
    /\ session = "open"
    /\ mongo_client = "open"
    /\ start_time = None
    /\ now = 1
    /\ report = NoReport
    /\ users = {}
    /\ cleanup_log = <<>>
    /\ interrupted = FALSE
    /\ exit_status = "running"
    /\ lookup = NoLookup

\* await self.get_otp_from_mongodb(email)
Lookup(email, db_ok) ==
    /\ main_pc = "lookup"
    /\ lookup' = [called |-> TRUE, email |-> email, db_ok |-> db_ok,
                  otp |-> get_otp_from_mongodb(email, otps, db_ok)]
    /\ UNCHANGED <<phase, num_users, max_concurrent, latency, sem_value, waiters,
                   pc, workflow_result, results, calls, otps, pending,
                   run_results, successful_workflows, main_pc, session,
                   mongo_client, start_time, now, report, users, cleanup_log,
                   interrupted, exit_status>>
    /\ UNCHANGED scriptVars

\* the server saves one more OTP record
ServerInsertsOtp(r) ==
    /\ main_pc = "lookup"
    /\ r \notin otps
    /\ Cardinality(otps) < MaxStore
    /\ otps' = otps \cup {r}
    /\ UNCHANGED <<phase, num_users, max_concurrent, latency, sem_value, waiters,
                   pc, workflow_result, results, calls, pending, run_results,
                   successful_workflows, mainVars>>
    /\ UNCHANGED scriptVars

NextOtpLookup ==
    \/ \E email \in LookupEmails, db_ok \in BOOLEAN : Lookup(email, db_ok)
    \/ \E r \in OtpRecords : ServerInsertsOtp(r)

SpecOtpLookup == InitOtpLookup /\ [][NextOtpLookup]_vars

\* C18: a read that the data store answers returns the code of a record of
\* greatest creation timestamp among the records of that email that are in
\* the collection at the read, None when there is no record of that email,
\* and the same as it would on the records of that email alone
Matching(email, store) == {r \in store : r.email = email}

Newest(records) == {r \in records : \A q \in records : q.createdAt <= r.createdAt}

C18_NewestMatchingOtp ==
    [][(lookup' # lookup /\ lookup'.db_ok)
       => LET m == Matching(lookup'.email, otps)
          IN  /\ m = {} => lookup'.otp = None
              /\ m # {} => \E r \in Newest(m) : lookup'.otp = r.otp
              /\ lookup'.otp = get_otp_from_mongodb(lookup'.email, m, TRUE)]_vars

C18_Witness ==
    /\ lookup.called
    /\ lookup.db_ok
    /\ lookup.otp # None
    /\ \E r \in otps : /\ r.email = lookup.email
                       /\ r.otp = lookup.otp
                       /\ r.createdAt = MaxStamp
    /\ \E r \in otps : /\ r.email = lookup.email
                       /\ r.otp # lookup.otp
                       /\ r.createdAt < MaxStamp
    /\ \E r \in otps : /\ r.email # lookup.email
                       /\ r.otp # lookup.otp
                       /\ r.createdAt = MaxStamp

\* C19: an OTP read that the data store fails returns None, so the workflow
\* returns with the dependent step and every later step counted failed, it
\* does not raise, and the run and the other workflows go on; a data-store
\* failure in cleanup_test_data is logged and not raised, and main goes on
\* to close its handles and exit with status 0
DependentSteps(read) ==
    IF read = 1 THEN {"otp_verification", "login", "forgot_password", "reset_password"}
    ELSE {"reset_password"}

InLog(entry, log) == \E i \in 1..Len(log) : log[i] = entry

C19_StoreFailureNotFatal ==
    /\ [][/\ \A w \in Tasks :
                get_otp_from_mongodb(generate_test_user(w).email, otps, FALSE) = None
          /\ \A w \in Tasks :
                (/\ Len(calls'[w]) = Len(calls[w]) + 1
                 /\ calls'[w][Len(calls'[w])] = Call("get_otp", None))
                => /\ pc'[w] = "done"
                   /\ phase' = "running"
                   /\ \A s \in DependentSteps(TimesIssued(w, "get_otp") + 1) :
                         /\ results'[s].failed > results[s].failed
                         /\ results'[s].success = results[s].success
                         /\ results'[s].times = results[s].times
                         /\ ~workflow_result'[w][s]
                   /\ \A v \in Tasks \ {w} : /\ pc'[v] = pc[v]
                                             /\ calls'[v] = calls[v]
          /\ \A f \in CleanupFailures :
                LET out == CleanupTestData(f, users, otps)
                IN  /\ ~out.raises
                    /\ f # "none" => InLog(ErrorLog, out.log)
                    /\ f = "users" => (out.users = users /\ out.otps = otps)
                    /\ f = "otps" => out.otps = otps
          /\ (main_pc = "cleanup_data" /\ main_pc' # main_pc)
                => /\ main_pc' = "finally"
                   /\ cleanup_log' # <<>>
                   /\ exit_status' = "running"]_vars
    /\ [](main_pc = "exited" /\ InLog(ErrorLog, cleanup_log)
             => /\ exit_status = "0"
                /\ session = "closed"
                /\ mongo_client = "closed")

C19_Witness ==
    /\ main_pc = "exited"
    /\ exit_status = "0"
    /\ cleanup_log = <<ErrorLog>>
    /\ num_users = 2
    /\ pc[0] = "done"
    /\ calls[0] = <<Call("signup", None), Call("get_otp", None)>>
    /\ \E r \in otps : r.email = generate_test_user(0).email
    /\ \A s \in Steps : workflow_result[1][s]

(***************************************************************************)
(* cleanup_test_data called on stores that hold records of test users and  *)
(* of others: alice7@test.com, testuser7@test.org, testuser@test.com (no   *)
(* digits) and xtestuser7@test.com.                                        *)
(***************************************************************************)
TestEmails == {generate_test_user(i).email : i \in 0..(ScenarioMatching - 1)}

OtherEmails ==
    {<<"alice", 7, "@test.com">>, <<"testuser", 7, "@test.org">>,
     <<"testuser", "@test.com">>, <<"xtestuser", 7, "@test.com">>}

UserRecords == [email : TestEmails \cup OtherEmails]

StoredOtps ==
    [email : {generate_test_user(0).email, <<"alice", 7, "@test.com">>,
              <<"testuser", 7, "@test.org">>},
     otp : {1}, createdAt : 1..MaxStamp]

InitCleanup ==
    /\ phase = "returned"
    /\ num_users = 0
    /\ max_concurrent = 0
    /\ latency \in Durations
    /\ ScriptsIdle
    /\ sem_value = 0
    /\ waiters = <<>>
    /\ pc = <<>>
    /\ workflow_result = <<>>
    /\ results = EmptyResults
    /\ calls = <<>>
    /\ otps \in {store \in SUBSET StoredOtps : Cardinality(store) <= MaxStore}
    /\ pending = <<>>
    /\ run_results = <<>>
    /\ successful_workflows = 0
    /\ main_pc = "cleanup_data"
    /\ session = "open"
    /\ mongo_client = "open"
    /\ start_time = None
    /\ now = 1
    /\ report = NoReport
    /\ users \in SUBSET UserRecords
    /\ cleanup_log = <<>>
    /\ interrupted = FALSE
    /\ exit_status = "running"
    /\ lookup = NoLookup

NextCleanup ==
    \/ \E fail_at \in CleanupFailures : cleanup_test_data(fail_at)
    \/ cleanup

SpecCleanup == InitCleanup /\ [][NextCleanup]_vars

\* C20: cleanup_test_data deletes from the user store and from the OTP store
\* exactly the records of the emails testuser<digits>@test.com, leaves every
\* other record as it is, and logs the number it deleted from each store; a
\* user store of ScenarioMatching test records and ScenarioOther others ends
\* with the ScenarioOther others and a logged count of ScenarioMatching
DeletedExactly(before, after, count) ==
    /\ after \subseteq before
    /\ \A r \in before : r.email \in TestEmails => r \notin after
    /\ \A r \in before : r.email \in OtherEmails => r \in after
    /\ count = Cardinality(before) - Cardinality(after)
    /\ count = Cardinality({r \in before : r.email \in TestEmails})

C20_CleanupDeletesExactlyTestData ==
    [][(main_pc = "cleanup_data" /\ main_pc' = "finally")
       => /\ Len(cleanup_log') \in {1, 2}
          /\ cleanup_log'[1] # ErrorLog
                => /\ cleanup_log'[1].what = "users"
                   /\ DeletedExactly(users, users', cleanup_log'[1].count)
                   /\ Len(cleanup_log') = 2
          /\ cleanup_log'[1] = ErrorLog
                => /\ Len(cleanup_log') = 1
                   /\ users' = users
                   /\ otps' = otps
          /\ (Len(cleanup_log') = 2 /\ cleanup_log'[2] # ErrorLog)
                => /\ cleanup_log'[2].what = "otps"
                   /\ DeletedExactly(otps, otps', cleanup_log'[2].count)
          /\ (Len(cleanup_log') = 2 /\ cleanup_log'[2] = ErrorLog) => otps' = otps
          /\ (/\ cleanup_log'[1] # ErrorLog
              /\ Cardinality({r \in users : r.email \in TestEmails}) = ScenarioMatching
              /\ Cardinality({r \in users : r.email \in OtherEmails}) = ScenarioOther)
                => /\ Cardinality(users') = ScenarioOther
                   /\ cleanup_log'[1].count = ScenarioMatching]_vars

C20_Witness ==
    /\ main_pc = "finally"
    /\ cleanup_log = <<DeletedLog("users", ScenarioMatching), DeletedLog("otps", 2)>>
    /\ Cardinality(users) = ScenarioOther
    /\ [email |-> <<"testuser", 7, "@test.org">>] \in users
    /\ [email |-> <<"testuser", "@test.com">>] \in users
    /\ Cardinality(otps) = 1

\* C21: test data is deleted only after the operator has confirmed: main
\* goes to cleanup_test_data exactly when the answer to the prompt is "y"
\* (after lower() and strip()), and from nowhere but the prompt, so never
\* after an interrupt, a failed setup or a failed report; only
\* cleanup_test_data deletes or logs a deletion, and when it fails main
\* still goes on to its finally clause
C21_CleanupOnlyOnConfirmation ==
    [][/\ \A answer \in PromptAnswers :
             Prompt(answer) => (main_pc' = "cleanup_data" <=> Confirms(answer))
       /\ \A answer \in PromptAnswers :
             Confirms(answer) <=> answer \in {<<"y">>, <<"Y">>, <<" ", "y", " ">>,
                                              <<"y", " ">>}
       /\ (main_pc' = "cleanup_data" /\ main_pc # "cleanup_data")
             => /\ \E answer \in PromptAnswers : Confirms(answer) /\ Prompt(answer)
                /\ phase = "returned"
                /\ ~interrupted
                /\ report.at = "printed"
       /\ (cleanup_log' # cleanup_log \/ users' # users
              \/ \E r \in otps : r \notin otps')
             => /\ main_pc = "cleanup_data"
                /\ main_pc' = "finally"
                /\ exit_status' = "running"
       /\ main_pc = "cleanup_data" => (main_pc' = "finally" /\ cleanup_log' # <<>>)]_vars

C21_Witness ==
    /\ main_pc = "exited"
    /\ exit_status = "0"
    /\ Len(cleanup_log) = 2
    /\ cleanup_log[2] = ErrorLog
    /\ otps # {}
    /\ \E w \in Tasks : Called(w, "reset_password")

(***************************************************************************)
(* The run without an operator interrupt, under the assumption that every  *)
(* await of a workflow returns: each task that can take a step eventually  *)
(* takes one (the event loop runs every ready callback, the semaphore      *)
(* wakes its waiters first come first served), and gather returns once all *)
(* tasks are done.  The server is free never to save an OTP.               *)
(***************************************************************************)
WorkflowStep(w) ==
    /\ w \in Tasks
    /\ \/ limited_workflow(w)
       \/ \E r \in Responses : SignupResponse(w, r)
       \/ \E db_ok \in BOOLEAN : OtpRead(w, db_ok)
       \/ \E r \in Responses : OtpVerificationResponse(w, r)
       \/ \E r \in Responses : LoginResponse(w, r)
       \/ \E r \in Responses : ForgotPasswordResponse(w, r)
       \/ \E db_ok \in BOOLEAN : ResetOtpRead(w, db_ok)
       \/ \E r \in Responses : ResetPasswordResponse(w, r)

NextLive ==
    \/ setup("ok")
    \/ \E n \in 1..LiveUsers, k \in 1..LiveCap : run_load_test(n, k)
    \/ \E w \in Tasks : limited_workflow(w)
    \/ \E w \in Tasks, r \in Responses : SignupResponse(w, r)
    \/ \E w \in Tasks, db_ok \in BOOLEAN : OtpRead(w, db_ok)
    \/ \E w \in Tasks, r \in Responses : OtpVerificationResponse(w, r)
    \/ \E w \in Tasks, r \in Responses : LoginResponse(w, r)
    \/ \E w \in Tasks, r \in Responses : ForgotPasswordResponse(w, r)
    \/ \E w \in Tasks, db_ok \in BOOLEAN : ResetOtpRead(w, db_ok)
    \/ \E w \in Tasks, r \in Responses : ResetPasswordResponse(w, r)
    \/ \E w \in Tasks : ServerPersistOtp(w)
    \/ GatherReturns

SpecLive ==
    /\ Init
    /\ [][NextLive]_vars
    /\ \A w \in 0..(LiveUsers - 1) : WF_vars(WorkflowStep(w))
    /\ WF_vars(GatherReturns)

\* C22: every submitted workflow, those queued beyond the cap included,
\* eventually gets a slot and runs to its end, and run_load_test returns
RanToItsEnd(w) == w \in DOMAIN pc /\ pc[w] = "done" /\ calls[w] # <<>>

C22_QueuedWorkflowsRun ==
    /\ \A w \in 0..(LiveUsers - 1) :
          (phase = "running" /\ w < num_users) ~> RanToItsEnd(w)
    /\ (phase = "running") ~> (phase = "returned" /\ Len(run_results) = num_users)

C22_Witness ==
    /\ phase = "returned"
    /\ num_users > max_concurrent
    /\ \A w \in Tasks : pc[w] = "done" /\ calls[w] # <<>>
    /\ sem_value = max_concurrent

\* C23: for a step with exactly one duration sample print_results computes
\* the 95th percentile without an error, and it is that sample
C23_SingleSamplePercentile ==
    \A s \in Steps :
        Len(results[s].times) = 1
        => LET printed == StepReport(results[s])
           IN  /\ printed.kind = "stats"
               /\ printed.p95[2] > 0
               /\ printed.p95[1] = results[s].times[1] * printed.p95[2]
               /\ printed.min = results[s].times[1]
               /\ printed.max = results[s].times[1]
               /\ report.at = "printed" => report.steps[s] = printed
               /\ report.at # "step"

C23_Witness ==
    /\ report.at = "printed"
    /\ \E s \in Steps : /\ Len(results[s].times) = 1
                        /\ results[s].times[1] = MaxDuration
                        /\ report.steps[s].p95 = <<MaxDuration, 1>>

(***************************************************************************)
(* update_vendor_inventory.py: fetch_all_items_for_uni.  The function is   *)
(* synchronous; each GET of a page is one step, the endpoint's answer its  *)
(* input.                                                                  *)
(***************************************************************************)

\* the load tester constructed and not started, while another script runs
LoadTesterIdle ==
    /\ phase = "constructed"
    /\ num_users = 0
    /\ max_concurrent = 0
    /\ latency = 1
    /\ sem_value = 0
    /\ waiters = <<>>
    /\ pc = <<>>
    /\ workflow_result = <<>>
    /\ results = EmptyResults
    /\ calls = <<>>
    /\ otps = {}
    /\ pending = <<>>
    /\ run_results = <<>>
    /\ successful_workflows = 0
    /\ main_pc = "setup"
    /\ session = "None"
    /\ mongo_client = "None"
    /\ start_time = None
    /\ now = 1
    /\ report = NoReport
    /\ users = {}
    /\ cleanup_log = <<>>
    /\ interrupted = FALSE
    /\ exit_status = "running"
    /\ lookup = NoLookup

loadTestVars == <<phase, num_users, max_concurrent, latency, sem_value, waiters,
                  pc, workflow_result, results, calls, otps, pending, run_results,
                  successful_workflows, mainVars>>

\* the items the endpoint serves, each with its "_id" and "id"; None is an
\* absent key.  The second has the id of the first under the other key, the
\* third has no id at all.
Items == {[_id |-> 1, id |-> None], [_id |-> None, id |-> 1],
          [_id |-> None, id |-> None], [_id |-> 2, id |-> None]}

\* it.get("_id") or it.get("id")
ItemId(it) == IF it._id # None THEN it._id ELSE it.id

\* the de-duplication loop over all_items, with its set seen
RECURSIVE DedupFrom(_, _, _)
DedupFrom(items, seen, unique) ==
    IF items = <<>> THEN unique
    ELSE LET it == Head(items)
             item_id == ItemId(it)
         IN  IF item_id = None \/ item_id \in seen
             THEN DedupFrom(Tail(items), seen, unique)
             ELSE DedupFrom(Tail(items), seen \cup {item_id}, Append(unique, it))

\* a function that returns all_items as read
DedupKeepsAll(items) == items

Dedup(items) == DedupFrom(items, {}, <<>>)

\* The behaviours of the endpoint: full_pages pages of page_size items and
\* then a shorter one, or full pages for ever (always_full), and the
\* totalPages it reports in every object (None: none, or a value that is not
\* an int >= 1).  An endpoint whose pages are always full reports totalPages.
ServerPlans ==
    {srv \in [full_pages : 0..(MaxPages - 1), always_full : BOOLEAN,
              totalPages : {None} \cup 1..MaxPages] :
        srv.always_full => srv.totalPages # None /\ srv.full_pages = 0}

ListsOfLen(lo, hi) == UNION {[1..n -> Items] : n \in lo..hi}

\* The answers to the GET of page p: an HTTP error, a JSON scalar, a plain
\* array (not paginated, so it may be longer than a page), or an object with
\* the page under "items", "data" or another key.
PageResponses(srv, p) ==
    LET full == srv.always_full \/ p <= srv.full_pages
        lists == IF full THEN ListsOfLen(PageSize, PageSize)
                         ELSE ListsOfLen(0, PageSize - 1)
    IN  [shape : {"items", "data", "other"}, list : lists,
         totalPages : {srv.totalPages}]
        \cup [shape : {"array"}, list : ListsOfLen(0, PageSize + 1),
              totalPages : {None}]
        \cup [shape : {"scalar", "error"}, list : {<<>>}, totalPages : {None}]

\* items as the loop body finds it in an object: under "items" or "data",
\* else the fallback over data.values(), which wants a first element with
\* an "_id" or "id" key
ListedItems(resp) ==
    IF resp.list = <<>> THEN <<>>
    ELSE IF resp.shape \in {"items", "data"} THEN resp.list
    ELSE IF Head(resp.list)._id # None \/ Head(resp.list).id # None THEN resp.list
    ELSE <<>>

\* total_pages after the discovery of lines 74-77
DiscoverTotalPages(current, resp) ==
    IF current = None /\ resp.totalPages # None /\ resp.totalPages >= 1
    THEN resp.totalPages
    ELSE current

\* a loop that stops on a short page only
LastPageIgnoresTotal(tp, p, items) == Len(items) < PageSize

\* the stop conditions after a page was added
LastPage(tp, p, items) ==
    \/ tp # None /\ p >= tp
    \/ Len(items) < PageSize

\* the call: the locals before the loop
FetchCall(srv) ==
    /\ fetch_pc = "idle"
    /\ fetch_pc' = "loop"
    /\ server' = srv
    /\ page' = 1
    /\ all_items' = <<>>
    /\ total_pages' = None
    /\ requested' = <<>>
    /\ unique_items' = <<>>

\* one iteration of "while True": the GET of the page and what follows, up
\* to the next GET or, after the loop, the de-duplication and the return
FetchPage(resp) ==
    /\ fetch_pc = "loop"
    /\ page <= MaxPages
    /\ resp \in PageResponses(server, page)
    /\ requested' = Append(requested, page)
    /\ server' = server
    /\ IF resp.shape \in {"error", "scalar"}
       THEN /\ fetch_pc' = "raised"
            /\ UNCHANGED <<page, all_items, total_pages, unique_items>>
       ELSE IF resp.shape = "array"
       THEN /\ all_items' = all_items \o resp.list
            /\ unique_items' = Dedup(all_items')
            /\ fetch_pc' = "returned"
            /\ UNCHANGED <<page, total_pages>>
       ELSE LET items == ListedItems(resp)
                tp == DiscoverTotalPages(total_pages, resp)
            IN  /\ total_pages' = tp
                /\ all_items' = all_items \o items
                /\ IF items = <<>> \/ LastPage(tp, page, items)
                   THEN /\ unique_items' = Dedup(all_items')
                        /\ fetch_pc' = "returned"
                        /\ page' = page
                   ELSE /\ fetch_pc' = "loop"
                        /\ page' = page + 1
                        /\ unique_items' = unique_items

\* fetch_all_items_for_uni called on its own
fetch_all_items_for_uni(srv) ==
    /\ inv_pc = "idle"
    /\ FetchCall(srv)
    /\ UNCHANGED <<loadTestVars, inventoryVars, gstVars>>

FetchNextPage ==
    /\ inv_pc = "idle"
    /\ \E resp \in PageResponses(server, page) : FetchPage(resp)
    /\ UNCHANGED <<loadTestVars, inventoryVars, gstVars>>

InitFetch == LoadTesterIdle /\ ScriptsIdle

NextFetch ==
    \/ \E srv \in ServerPlans : fetch_all_items_for_uni(srv)
    \/ FetchNextPage

\* the GET has a timeout: every request is answered or raises
SpecFetch == InitFetch /\ [][NextFetch]_vars /\ WF_vars(NextFetch)

\* the positions of all_items that hold the first item of their id
FirstOccurrences(all) ==
    {i \in 1..Len(all) :
        /\ ItemId(all[i]) # None
        /\ \A j \in 1..(i - 1) : ItemId(all[j]) # ItemId(all[i])}

FetchOrderAndResult ==
    /\ \A i \in 1..Len(requested) : requested[i] = i
    /\ fetch_pc = "returned"
       => LET first == FirstOccurrences(all_items)
          IN  /\ \A i, j \in 1..Len(unique_items) :
                    i # j => ItemId(unique_items[i]) # ItemId(unique_items[j])
              /\ \A i \in 1..Len(unique_items) : ItemId(unique_items[i]) # None
              /\ Len(unique_items) = Cardinality(first)
              /\ \A k \in 1..Len(unique_items) :
                    \E i \in first :
                        /\ unique_items[k] = all_items[i]
                        /\ Cardinality({j \in first : j < i}) = k - 1

MaxVendors == 1

\* the universities a vendor may belong to
UniIds == {1, 2}

\* The records of a Compass export: the ObjectId of each (None: none can be
\* extracted) and its uniId (None: the record has none).
JsonRecords == {[id |-> 1, uni |-> 1], [id |-> 2, uni |-> 2],
                [id |-> 3, uni |-> None], [id |-> None, uni |-> 1]}

\* the file given with --retails-json or --produces-json as a read finds
\* it; reading one that is not readable raises
JsonFiles ==
    [given : {TRUE}, readable : {TRUE}, records : SUBSET JsonRecords]
    \cup {[given |-> TRUE, readable |-> FALSE, records |-> {}]}

\* load_ids_from_json: the ids of the records that are not of another
\* university than uni_filter
load_ids_from_json(file, uni_filter) ==
    {rec.id : rec \in {r \in file.records :
                          /\ ~(uni_filter # None /\ r.uni # None /\ r.uni # uni_filter)
                          /\ r.id # None}}

\* whether a file is given for the category
JsonOf(a, cat) == IF cat = "retail" THEN a.retails_json ELSE a.produces_json

\* the orders in which list() may enumerate a set
Orderings(S) ==
    {seq \in [1..Cardinality(S) -> S] : \A i, j \in 1..Cardinality(S) :
                                            i # j => seq[i] # seq[j]}

\* the items taken as they come from the API, whether or not a file is given
ItemsToPostIgnoringFile(file, api_items, filter) == {api_items}

\* retail_items or produce_items: the lists the try block may leave, a pair
\* of the list and of the cross-check made
ItemsToPost(file, api_items, filter) ==
    IF ~file.given THEN {api_items}
    ELSE IF ~file.readable THEN {<<>>}
    ELSE LET json_ids == load_ids_from_json(file, filter)
             api_ids == {ItemId(api_items[i]) : i \in 1..Len(api_items)}
             intersect_ids == api_ids \cap json_ids
         IN  {[i \in 1..Len(seq) |-> [_id |-> seq[i], id |-> None]] :
                 seq \in Orderings(intersect_ids)}

\* what the cross-check compared, for the record
CrossChecked(file, api_items, filter) ==
    IF file.given /\ file.readable
    THEN [made |-> TRUE,
          api_ids |-> {ItemId(api_items[i]) : i \in 1..Len(api_items)},
          json_ids |-> load_ids_from_json(file, filter)]
    ELSE NoCrossCheck

\* the endpoint as main's fetches meet it: one page
InventoryPlans == {srv \in ServerPlans : srv.full_pages = 0 /\ srv.totalPages = None}

\* main up to the loop over the vendors
InventoryMain(vendors, a) ==
    /\ inv_pc = "idle"
    /\ inv_pc' = "vendor"
    /\ vendor_ids' = vendors
    /\ args' = a
    /\ vendor_pos' = 1
    /\ overall_added' = 0
    /\ overall_failed' = 0
    /\ UNCHANGED <<uni_id, category, cross_check, to_post, posted>>
    /\ UNCHANGED <<loadTestVars, fetchVars, gstVars>>

\* fetch_vendor_uni_id for the next vendor; uni = None: it raises
FetchVendorUniId(uni) ==
    /\ inv_pc = "vendor"
    /\ vendor_pos <= Len(vendor_ids)
    /\ IF uni = None
       THEN /\ overall_failed' = overall_failed + 1
            /\ vendor_pos' = vendor_pos + 1
            /\ UNCHANGED <<inv_pc, uni_id, category>>
       ELSE /\ uni_id' = uni
            /\ category' = "retail"
            /\ inv_pc' = "fetch"
            /\ UNCHANGED <<overall_failed, vendor_pos>>
    /\ UNCHANGED <<vendor_ids, args, cross_check, to_post, posted, overall_added>>
    /\ UNCHANGED <<loadTestVars, fetchVars, gstVars>>

\* the summary after the last vendor
Summary ==
    /\ inv_pc = "vendor"
    /\ vendor_pos > Len(vendor_ids)
    /\ inv_pc' = "summary"
    /\ UNCHANGED <<vendor_ids, args, vendor_pos, uni_id, category, cross_check,
                   to_post, posted, overall_added, overall_failed>>
    /\ UNCHANGED <<loadTestVars, fetchVars, gstVars>>

\* the call of fetch_all_items_for_uni for the category
FetchCategory(srv) ==
    /\ inv_pc = "fetch"
    /\ FetchCall(srv)
    /\ inv_pc' = "fetching"
    /\ UNCHANGED <<vendor_ids, args, vendor_pos, uni_id, category, cross_check,
                   to_post, posted, overall_added, overall_failed>>
    /\ UNCHANGED <<loadTestVars, gstVars>>

FetchCategoryPage ==
    /\ inv_pc = "fetching"
    /\ \E resp \in PageResponses(server, page) : FetchPage(resp)
    /\ UNCHANGED <<loadTestVars, inventoryVars, gstVars>>

\* the rest of the try block once the fetch returned or raised; file is
\* what load_ids_from_json finds at the path
CrossCheck(file) ==
    /\ inv_pc = "fetching"
    /\ fetch_pc \in {"returned", "raised"}
    /\ file.given = JsonOf(args, category)
    /\ fetch_pc = "raised" => file.readable
    /\ LET filter == IF args.uni_id # None THEN args.uni_id ELSE uni_id
       IN  IF fetch_pc = "raised"
           THEN /\ to_post' = <<>>
                /\ cross_check' = NoCrossCheck
           ELSE /\ to_post' \in ItemsToPost(file, unique_items, filter)
                /\ cross_check' = CrossChecked(file, unique_items, filter)
    /\ inv_pc' = "post"
    /\ fetch_pc' = "idle"
    /\ server' = NoServer
    /\ page' = 1
    /\ all_items' = <<>>
    /\ total_pages' = None
    /\ requested' = <<>>
    /\ unique_items' = <<>>
    /\ UNCHANGED <<vendor_ids, args, vendor_pos, uni_id, category, posted,
                   overall_added, overall_failed>>
    /\ UNCHANGED <<loadTestVars, gstVars>>

\* One turn of "for item in retail_items" or "for item in produce_items":
\* add_retail_inventory or set_produce_available for the item; its request
\* is answered 200 ("ok") or otherwise ("failed"), or raises.
PostItem(outcome) ==
    /\ inv_pc = "post"
    /\ to_post # <<>>
    /\ LET item_id == ItemId(Head(to_post))
       IN  IF item_id = None
           THEN UNCHANGED <<inv_pc, posted, overall_added, overall_failed>>
           ELSE /\ posted' = Append(posted, [vendor |-> vendor_pos,
                                             category |-> category,
                                             item |-> item_id])
                /\ inv_pc' = IF outcome = "raises" THEN "raised" ELSE "post"
                /\ overall_added' = IF outcome = "ok" THEN overall_added + 1
                                    ELSE overall_added
                /\ overall_failed' = IF outcome = "failed" THEN overall_failed + 1
                                     ELSE overall_failed
    /\ to_post' = Tail(to_post)
    /\ UNCHANGED <<vendor_ids, args, vendor_pos, uni_id, category, cross_check>>
    /\ UNCHANGED <<loadTestVars, fetchVars, gstVars>>

\* after the last item: produce after retail, the next vendor after produce
NextCategory ==
    /\ inv_pc = "post"
    /\ to_post = <<>>
    /\ IF category = "retail"
       THEN /\ category' = "produce"
            /\ inv_pc' = "fetch"
            /\ UNCHANGED vendor_pos
       ELSE /\ vendor_pos' = vendor_pos + 1
            /\ inv_pc' = "vendor"
            /\ UNCHANGED category
    /\ posted' = <<>>
    /\ UNCHANGED <<vendor_ids, args, uni_id, cross_check, to_post,
                   overall_added, overall_failed>>
    /\ UNCHANGED <<loadTestVars, fetchVars, gstVars>>

\* the command lines: one or more vendors, each file given or not, --uni-id
\* given or not
CommandLines ==
    [retails_json : BOOLEAN, produces_json : BOOLEAN, uni_id : {None} \cup UniIds]

InitInventory == LoadTesterIdle /\ ScriptsIdle

NextInventory ==
    \/ \E n \in 1..MaxVendors, a \in CommandLines :
          InventoryMain([i \in 1..n |-> i], a)
    \/ \E uni \in {None} \cup UniIds : FetchVendorUniId(uni)
    \/ Summary
    \/ \E srv \in InventoryPlans : FetchCategory(srv)
    \/ FetchCategoryPage
    \/ \E file \in {NotGiven} \cup JsonFiles : CrossCheck(file)
    \/ \E outcome \in {"ok", "failed", "raises"} : PostItem(outcome)
    \/ NextCategory

SpecInventory == InitInventory /\ [][NextInventory]_vars

\* the ids posted for the vendor at position v in the category
PostedIds(v, cat) ==
    {posted[i].item : i \in {j \in 1..Len(posted) :
                                posted[j].vendor = v /\ posted[j].category = cat}}

\* C24: when a JSON file is given for a category, the ids for which an
\* inventory update is posted for a vendor are ids both loaded from the file
\* and returned by the API for the vendor's university, and once the loop
\* over the items has ended they are all of these.
C24_PostsExactlyIntersection ==
    (inv_pc = "post" /\ JsonOf(args, category))
    => LET intersection == IF cross_check.made
                           THEN cross_check.api_ids \cap cross_check.json_ids
                           ELSE {}
       IN  /\ PostedIds(vendor_pos, category) \subseteq intersection
           /\ to_post = <<>> => PostedIds(vendor_pos, category) = intersection

\* the loop has ended with an update posted, an id of the file left out
\* because the API did not return it and an id of the API left out because
\* the file does not hold it
C24_Witness ==
    /\ inv_pc = "post"
    /\ to_post = <<>>
    /\ cross_check.made
    /\ PostedIds(vendor_pos, category) # {}
    /\ cross_check.json_ids \ cross_check.api_ids # {}
    /\ cross_check.api_ids \ cross_check.json_ids # {}

\* the codes task w submitted in the calls of op
CodesSubmitted(w, op) ==
    {calls[w][i].otp : i \in {j \in 1..Len(calls[w]) : calls[w][j].op = op}}

\* C25: the OTP a workflow submits in its reset-password step is the code
\* persisted as a result of its forgot-password call, read after that call
\* succeeded, and never the code the workflow already submitted in
\* otp_verification, however the write to the store and the read interleave.
C25_ResetOtpIsFresh ==
    \A w \in Tasks :
        \A code \in CodesSubmitted(w, "reset_password") :
            /\ workflow_result[w]["forgot_password"]
            /\ code \notin CodesSubmitted(w, "otp_verification")
            /\ code = ServerOtpCode(w, 2)

\* the flags of a workflow result are prefix-closed along the pipeline
PrefixClosed(wr) ==
    \A i \in 2..Len(StepNames) : wr[StepNames[i]] => wr[StepNames[i - 1]]

\* C26: in every workflow result a step's success flag implies the flag of
\* the step before it; in every reachable results table the success counters
\* do not increase along the pipeline and a step has no more duration
\* samples than the step before it has successes.
C26_PrefixClosedAndMonotone ==
    /\ \A w \in DOMAIN workflow_result : PrefixClosed(workflow_result[w])
    /\ \A i \in 1..Len(run_results) :
          ~run_results[i].exception => PrefixClosed(run_results[i].success)
    /\ \A i \in 2..Len(StepNames) :
          /\ results[StepNames[i]].success <= results[StepNames[i - 1]].success
          /\ Len(results[StepNames[i]].times) <= results[StepNames[i - 1]].success

\* a run has returned in which a workflow logged in and failed at
\* forgot-password: the counters step down there and the later step has no
\* sample
C26_Witness ==
    /\ phase = "returned"
    /\ results["login"].success > results["forgot_password"].success
    /\ results["forgot_password"].times # <<>>
    /\ results["reset_password"].times = <<>>
    /\ \E i \in 1..Len(run_results) :
          /\ ~run_results[i].exception
          /\ run_results[i].success["login"]
          /\ ~run_results[i].success["forgot_password"]

\* C27: the number of successful workflows run_load_test reports is the
\* number of workflows that returned with their login step succeeded,
\* whatever became of their forgot-password and reset-password steps; a
\* workflow that raised is not counted.
C27_SuccessfulMeansLoggedIn ==
    /\ phase = "returned"
       => successful_workflows =
             Cardinality({w \in Tasks : pc[w] = "done" /\ workflow_result[w]["login"]})
    \* the tally of a task that gather hands back as an exception, whatever
    \* the task had achieved
    /\ \A w \in DOMAIN workflow_result :
          CountSuccessful(<<[GatherResult(w) EXCEPT !.exception = TRUE]>>) = 0

\* a run has returned with one workflow counted, which failed at
\* forgot-password, and another that did not log in
C27_Witness ==
    /\ phase = "returned"
    /\ successful_workflows = 1
    /\ \E w \in Tasks : /\ workflow_result[w]["login"]
                        /\ ~workflow_result[w]["forgot_password"]
    /\ \E w \in Tasks : ~workflow_result[w]["login"]

(***************************************************************************)
(* test_user_workflow as a function of what belongs to one workflow: where *)
(* it stands, its flags, the requests and reads it has made, the OTP       *)
(* records of its own email and the OTPs issued to it and not yet saved.   *)
(***************************************************************************)
LocalView(w) ==
    [pc      |-> pc[w],
     result  |-> workflow_result[w],
     calls   |-> calls[w],
     records |-> {rec \in otps : rec.email = generate_test_user(w).email},
     pending |-> pending[w]]

\* what can happen to a workflow: it gets its slot, a response or a read
\* result arrives, the server saves an OTP issued to it, it is cancelled
LocalInputs ==
    LET none == [raised |-> TRUE, status |-> 0, json_ok |-> FALSE]
    IN  [kind : {"admit", "persist", "cancel"}, r : {none}, db_ok : {TRUE}]
        \cup [kind : {"response"}, r : Responses, db_ok : {TRUE}]
        \cup [kind : {"read"}, r : {none}, db_ok : BOOLEAN]

\* the step call awaited at a position
StepCall(at, r, d) ==
    CASE at = "signup"           -> test_signup(r, d)
      [] at = "otp_verification" -> test_otp_verification(r, d)
      [] at = "login"            -> test_login(r, d)
      [] at = "forgot_password"  -> test_forgot_password(r, d)
      [] at = "reset_password"   -> test_reset_password(r, d)

\* where test_user_workflow goes after a step succeeded, and the request it
\* sends on the way
AfterSuccess(at) ==
    CASE at = "signup"           -> [pc |-> "sleep_otp", issued |-> <<>>]
      [] at = "otp_verification" -> [pc |-> "login", issued |-> <<Call("login", None)>>]
      [] at = "login"            -> [pc |-> "forgot_password",
                                     issued |-> <<Call("forgot_password", None)>>]
      [] at = "forgot_password"  -> [pc |-> "sleep_reset_otp", issued |-> <<>>]
      [] at = "reset_password"   -> [pc |-> "done", issued |-> <<>>]

\* whether the server issues an OTP on the request
IssuesOtp(at, r) ==
    CASE at = "signup"          -> ~r.raised /\ r.status = HTTP_CREATED /\ r.json_ok
      [] at = "forgot_password" -> ~r.raised /\ r.status = HTTP_OK
      [] OTHER                  -> FALSE

\* the view of workflow w after the input, computed from its view alone
LocalStep(w, v, in) ==
    CASE in.kind = "admit" ->
            IF v.pc # "waiting" THEN v
            ELSE [v EXCEPT !.pc = "signup", !.result = NewWorkflowResult,
                           !.calls = <<Call("signup", None)>>]
      [] in.kind = "cancel" ->
            IF v.pc \in Finished THEN v ELSE [v EXCEPT !.pc = "cancelled"]
      [] in.kind = "persist" ->
            IF ~(v.pc \in Holding /\ v.pending > 0) THEN v
            ELSE LET k == Cardinality(v.records) + 1
                 IN  [v EXCEPT !.records = @ \cup {[email |-> generate_test_user(w).email,
                                                    otp |-> ServerOtpCode(w, k),
                                                    createdAt |-> k]},
                               !.pending = @ - 1]
      [] in.kind = "read" ->
            IF v.pc \notin {"sleep_otp", "sleep_reset_otp"} THEN v
            ELSE LET otp == get_otp_from_mongodb(generate_test_user(w).email,
                                                 v.records, in.db_ok)
                     step == IF v.pc = "sleep_otp" THEN "otp_verification"
                             ELSE "reset_password"
                 IN  IF otp # None
                     THEN [v EXCEPT !.pc = step,
                                    !.calls = @ \o <<Call("get_otp", otp), Call(step, otp)>>]
                     ELSE [v EXCEPT !.pc = "done",
                                    !.calls = @ \o <<Call("get_otp", otp)>>]
      [] in.kind = "response" ->
            IF v.pc \notin Steps THEN v
            ELSE LET sr == StepCall(v.pc, in.r, 1)
                     issues == IF IssuesOtp(v.pc, in.r) THEN 1 ELSE 0
                 IN  IF sr.raises THEN [v EXCEPT !.pc = "raised"]
                     ELSE IF sr.success
                     THEN [v EXCEPT !.pc = AfterSuccess(v.pc).pc,
                                    !.result[v.pc] = TRUE,
                                    !.calls = @ \o AfterSuccess(v.pc).issued,
                                    !.pending = @ + issues]
                     ELSE [v EXCEPT !.pc = "done",
                                    !.result[v.pc] = FALSE,
                                    !.pending = @ + issues]

\* the codes of the records written for workflow w
CodesWrittenFor(w) == {ServerOtpCode(w, k) : k \in 1..(2 * Len(StepNames))}

DistinctEmailsOwnRecords ==
    /\ \A v, w \in 0..MaxUsers :
          v # w => generate_test_user(v).email # generate_test_user(w).email
    /\ \A w \in DOMAIN calls :
          \A i \in 1..Len(calls[w]) :
              calls[w][i].otp # None => calls[w][i].otp \in CodesWrittenFor(w)
    /\ \A v, w \in DOMAIN calls : v # w => CodesWrittenFor(v) \cap CodesWrittenFor(w) = {}

\* while the run lasts, a step changes what belongs to a workflow only as
\* that workflow's own view and one input to it determine, and what belongs
\* to the others not at all (an interrupt cancels every unfinished workflow
\* at once)
StepsAreLocal ==
    \A w \in DOMAIN pc \cap DOMAIN pc' :
        (phase = "running" /\ LocalView(w)' # LocalView(w))
        => /\ \E in \in LocalInputs : LocalView(w)' = LocalStep(w, LocalView(w), in)
           /\ phase' # "interrupted"
              => \A v \in (DOMAIN pc \cap DOMAIN pc') \ {w} : LocalView(v)' = LocalView(v)

\* C28: the workflows of a run use pairwise distinct emails; an OTP read of a
\* workflow returns only a record written for that workflow; and every
\* change to a workflow's position, flags, requests and records is a function
\* of that workflow's own state and input, whatever the other workflows do
\* in between.
C28_WorkflowsIndependent ==
    /\ []DistinctEmailsOwnRecords
    /\ [][StepsAreLocal]_vars

\* two workflows are under way, each has read its own OTP, and both OTPs
\* are in the store together
C28_Witness ==
    /\ num_users = 2
    /\ \A w \in Tasks :
          /\ \E i \in 1..Len(calls[w]) :
                calls[w][i].op = "get_otp" /\ calls[w][i].otp \in CodesWrittenFor(w)
          /\ \E rec \in otps : rec.email = generate_test_user(w).email

(***************************************************************************)
(* add_gst_numbers.py: add_gst_numbers_to_universities.  One step per      *)
(* operation on db.unis: the find, then one turn of the loop for each      *)
(* university found.  The function is run up to MaxRuns times on the same  *)
(* collection.                                                             *)
(***************************************************************************)

\* the largest number of universities in db.unis
MaxUnis == 2
\* the fake GST numbers generate_fake_gst_number may draw
MaxGst == 2
\* the runs of the function on the same collection
MaxRuns == 2

\* generate_fake_gst_number: a random number
GstNumbers == 1..MaxGst

\* db.unis: the gstNumber of each university, None for one without
Collections ==
    UNION {[1..n -> {None} \cup GstNumbers] : n \in 0..MaxUnis}

\* list(unis_collection.find({})): the documents as they are now
FindAll(db) ==
    LET RECURSIVE Docs(_)
        Docs(ids) ==
            IF ids = {} THEN <<>>
            ELSE LET id == CHOOSE x \in ids : \A y \in ids : x <= y
                 IN  <<[_id |-> id, gstNumber |-> db[id]]>> \o Docs(ids \ {id})
    IN  Docs(DOMAIN db)

\* a check that finds no university with a GST number
NeverHasGst(uni) == FALSE

\* uni.get('gstNumber') is truthy
AlreadyHasGst(uni) == uni.gstNumber # None

\* what the run leaves for the next one to be compared with
ThisRun == [db |-> unis, updated |-> updated_count, errors |-> gst_errors]

\* The call up to the loop.  found = FALSE: the find raises and the outer
\* except clause returns False.
add_gst_numbers_to_universities(found) ==
    /\ inv_pc = "idle"
    /\ fetch_pc = "idle"
    /\ gst_pc \in {"idle", "returned"}
    /\ gst_runs < MaxRuns
    /\ gst_runs' = gst_runs + 1
    /\ previous_run' = IF gst_pc = "returned" THEN ThisRun ELSE NoRun
    /\ updated_count' = 0
    /\ skipped_count' = 0
    /\ uni_pos' = 1
    /\ IF found
       THEN /\ universities' = FindAll(unis)
            /\ gst_errors' = 0
            /\ gst_pc' = "loop"
       ELSE /\ universities' = <<>>
            /\ gst_errors' = 1
            /\ gst_pc' = "returned"
    /\ UNCHANGED unis
    /\ UNCHANGED <<loadTestVars, fetchVars, inventoryVars>>

\* One turn of "for uni in universities".  update_one sets the number
\* ("modified"), raises, which the inner except clause reports ("raises"),
\* or matches no document because another client has deleted it
\* ("unmatched").
UpdateUniversity(fake_gst_number, outcome) ==
    /\ gst_pc = "loop"
    /\ uni_pos <= Len(universities)
    /\ LET uni == universities[uni_pos]
       IN  IF AlreadyHasGst(uni)
           THEN /\ skipped_count' = skipped_count + 1
                /\ UNCHANGED <<unis, updated_count, gst_errors>>
           ELSE CASE outcome = "modified" ->
                       /\ uni._id \in DOMAIN unis
                       /\ unis' = [unis EXCEPT ![uni._id] = fake_gst_number]
                       /\ updated_count' = updated_count + 1
                       /\ UNCHANGED <<skipped_count, gst_errors>>
                  [] outcome = "raises" ->
                       /\ gst_errors' = gst_errors + 1
                       /\ UNCHANGED <<unis, updated_count, skipped_count>>
                  [] outcome = "unmatched" ->
                       /\ unis' = [id \in DOMAIN unis \ {uni._id} |-> unis[id]]
                       /\ UNCHANGED <<updated_count, skipped_count, gst_errors>>
    /\ uni_pos' = uni_pos + 1
    /\ UNCHANGED <<gst_pc, universities, gst_runs, previous_run>>
    /\ UNCHANGED <<loadTestVars, fetchVars, inventoryVars>>

\* the summary and "return updated_count > 0"
GstReturns ==
    /\ gst_pc = "loop"
    /\ uni_pos > Len(universities)
    /\ gst_pc' = "returned"
    /\ UNCHANGED <<unis, universities, uni_pos, updated_count, skipped_count,
                   gst_errors, gst_runs, previous_run>>
    /\ UNCHANGED <<loadTestVars, fetchVars, inventoryVars>>

InitGst ==
    /\ LoadTesterIdle
    /\ FetchIdle
    /\ InventoryIdle
    /\ gst_pc = "idle"
    /\ unis \in Collections
    /\ universities = <<>>
    /\ uni_pos = 0
    /\ updated_count = 0
    /\ skipped_count = 0
    /\ gst_errors = 0
    /\ gst_runs = 0
    /\ previous_run = NoRun

NextGst ==
    \/ \E found \in BOOLEAN : add_gst_numbers_to_universities(found)
    \/ \E number \in GstNumbers, outcome \in {"modified", "raises", "unmatched"} :
          UpdateUniversity(number, outcome)
    \/ GstReturns

SpecGst == InitGst /\ [][NextGst]_vars

\* no step changes the number of a university that has one
KeepsGstNumbers ==
    \A id \in DOMAIN unis :
        unis[id] # None => id \in DOMAIN unis' /\ unis'[id] = unis[id]

\* the universities of this run's find that are still in the collection
Processed == {universities[i]._id : i \in 1..Len(universities)} \cap DOMAIN unis

====
